---- MODULE Spec2Model ----
(***************************************************************************)
(* Model of the shelephant command-line tools (shelephant_cp,              *)
(* shelephant_mv, shelephant_rm, shelephant_diff) and of the local         *)
(* backend (shelephant/local.py).                                          *)
(*                                                                         *)
(* A run is one invocation of one command.  The environment of the run     *)
(* (command line, manifests, the two directory trees, availability of      *)
(* rsync) is drawn in Init; the actions are the stages of the command.     *)
(***************************************************************************)
EXTENDS Integers, Sequences, FiniteSets, TLC

\* ---------------------------------------------------------------- bounds
\* Number of distinct relative paths that exist in the universe of a run.
NPaths == 2
\* Number of distinct file contents (and hence sha256 fingerprints).
MaxContent == 2

Paths == 1..NPaths
\* Content of a path in a directory tree: 0 is "no such file".
Contents == 0..MaxContent

\* Python's None (for ssh hosts) and the one remote host of the model.
None == "None"
Host == "user@host"
Hosts == {None, Host}

\* ---------------------------------------------------------------- lists
\* File lists of a manifest: "paths within a Location are unique".
Injective(s) == \A i, j \in DOMAIN s : s[i] = s[j] => i = j
FileLists == {s \in UNION {[1..n -> Paths] : n \in 0..NPaths} : Injective(s)}

Range(s) == {s[i] : i \in DOMAIN s}

\* numpy boolean-mask indexing files[mask].tolist(): keeps the order.
MaskSelect(fs, mask) ==
    LET F[i \in 0..Len(fs)] ==
            IF i = 0 THEN <<>>
            ELSE IF mask[i] THEN Append(F[i - 1], fs[i]) ELSE F[i - 1]
    IN  F[Len(fs)]

\* The removal that leaves the list as it was.
ListRemove_none(fs, gone) == fs

\* The removal that keeps the named paths and drops the others.
ListRemove_others(fs, gone) ==
    MaskSelect(fs, [i \in 1..Len(fs) |-> fs[i] \in Range(gone)])

\* [files.remove(file) for file in gone]: each path occurs once in files.
ListRemove(fs, gone) ==
    MaskSelect(fs, [i \in 1..Len(fs) |-> fs[i] \notin Range(gone)])

\* dict.pop(key, []) : the value, and the dict without the key.
DictGet(d, k) == IF k \in DOMAIN d THEN d[k] ELSE <<>>
DictPop(d, k) == [x \in (DOMAIN d) \ {k} |-> d[x]]
DictSet(d, k, v) == [x \in (DOMAIN d) \cup {k} |-> IF x = k THEN v ELSE d[x]]
EmptyDict == [x \in {} |-> <<>>]

\* ---------------------------------------------------------------- trees
\* A directory tree: the content of every path (0: the file does not exist).
EmptyTree == [p \in Paths |-> 0]
Trees == [Paths -> Contents]

\* A directory as a backend sees it: "host:root" when ssh is set
\* (Location.hostpath), the tree below it, and whether it is a directory.
Dir(tree, ssh, isdir) == [tree |-> tree, ssh |-> ssh, isdir |-> isdir]

\* os.path.exists(os.path.join(dir, file)), evaluated on the local machine:
\* a host-qualified "user@host:root" names no local directory.
os_path_exists(dir, file) == dir.ssh = None /\ dir.isdir /\ dir.tree[file] # 0

\* The same question answered on the host of the directory (rsync, ssh).
remote_exists(dir, file) == dir.isdir /\ dir.tree[file] # 0

\* ---------------------------------------------------------------- local.py
\* local.diff with "?=" taken from insource alone.
local_diff_overlap(source_dir, dest_dir, fs) ==
    LET insource == [i \in 1..Len(fs) |-> os_path_exists(source_dir, fs[i])]
        indest == [i \in 1..Len(fs) |-> os_path_exists(dest_dir, fs[i])]
    IN  ("?=" :> MaskSelect(fs, [i \in 1..Len(fs) |-> insource[i]]))
        @@ ("->" :> MaskSelect(fs, [i \in 1..Len(fs) |-> insource[i] /\ ~indest[i]]))
        @@ ("<-" :> MaskSelect(fs, [i \in 1..Len(fs) |-> ~insource[i] /\ indest[i]]))

\* local.diff with "->" taken from indest alone: a path that is on neither
\* side is listed as well.
local_diff_unseen(source_dir, dest_dir, fs) ==
    LET insource == [i \in 1..Len(fs) |-> os_path_exists(source_dir, fs[i])]
        indest == [i \in 1..Len(fs) |-> os_path_exists(dest_dir, fs[i])]
    IN  ("?=" :> MaskSelect(fs, [i \in 1..Len(fs) |-> insource[i] /\ indest[i]]))
        @@ ("->" :> MaskSelect(fs, [i \in 1..Len(fs) |-> ~indest[i]]))
        @@ ("<-" :> MaskSelect(fs, [i \in 1..Len(fs) |-> ~insource[i] /\ indest[i]]))

\* local.diff reporting the files found on both sides as equal.
local_diff_equal(source_dir, dest_dir, fs) ==
    LET insource == [i \in 1..Len(fs) |-> os_path_exists(source_dir, fs[i])]
        indest == [i \in 1..Len(fs) |-> os_path_exists(dest_dir, fs[i])]
    IN  ("==" :> MaskSelect(fs, [i \in 1..Len(fs) |-> insource[i] /\ indest[i]]))
        @@ ("->" :> MaskSelect(fs, [i \in 1..Len(fs) |-> insource[i] /\ ~indest[i]]))
        @@ ("<-" :> MaskSelect(fs, [i \in 1..Len(fs) |-> ~insource[i] /\ indest[i]]))

\* local.diff
local_diff(source_dir, dest_dir, fs) ==
    LET insource == [i \in 1..Len(fs) |-> os_path_exists(source_dir, fs[i])]
        indest == [i \in 1..Len(fs) |-> os_path_exists(dest_dir, fs[i])]
    IN  ("?=" :> MaskSelect(fs, [i \in 1..Len(fs) |-> insource[i] /\ indest[i]]))
        @@ ("->" :> MaskSelect(fs, [i \in 1..Len(fs) |-> insource[i] /\ ~indest[i]]))
        @@ ("<-" :> MaskSelect(fs, [i \in 1..Len(fs) |-> ~insource[i] /\ indest[i]]))

\* An empty list is classified like any other.
local_diff_raises_never(fs) == FALSE

\* local.py lines 52-58: numpy gives the array built from an empty list
\* the type float64, for which `~indest` is not defined: TypeError.
local_diff_raises(fs) == Len(fs) = 0

\* shutil.copy2(src, dst) succeeds when src is a local file and the
\* directory of dst is a local directory.
copy2_ok(source_dir, dest_dir, file) ==
    os_path_exists(source_dir, file) /\ dest_dir.ssh = None /\ dest_dir.isdir

\* local.copy with the exception of copy2 caught inside the loop: the
\* remaining files are still copied, the failure is reported at the end.
local_copy_continue(source_dir, dest_dir, fs) ==
    LET F[i \in 0..Len(fs)] ==
            IF i = 0 THEN [dest |-> dest_dir.tree, src |-> source_dir.tree, ok |-> TRUE]
            ELSE IF copy2_ok(source_dir, dest_dir, fs[i])
                 THEN [F[i - 1] EXCEPT !.dest[fs[i]] = source_dir.tree[fs[i]]]
                 ELSE [F[i - 1] EXCEPT !.ok = FALSE]
    IN  F[Len(fs)]

\* local.copy that leaves the files the destination already has alone.
local_copy_new_only(source_dir, dest_dir, fs) ==
    LET F[i \in 0..Len(fs)] ==
            IF i = 0 THEN [dest |-> dest_dir.tree, src |-> source_dir.tree, ok |-> TRUE]
            ELSE IF ~F[i - 1].ok THEN F[i - 1]
            ELSE IF ~copy2_ok(source_dir, dest_dir, fs[i])
                 THEN [F[i - 1] EXCEPT !.ok = FALSE]
            ELSE IF dest_dir.tree[fs[i]] # 0 THEN F[i - 1]
            ELSE [F[i - 1] EXCEPT !.dest[fs[i]] = source_dir.tree[fs[i]]]
    IN  F[Len(fs)]

\* local.copy that returns without having copied anything.
local_copy_nothing(source_dir, dest_dir, fs) ==
    [dest |-> dest_dir.tree, src |-> source_dir.tree, ok |-> TRUE]

\* local.copy: the loop over files, in list order; an exception of copy2
\* leaves the loop.  Result: the destination tree and whether it raised.
local_copy(source_dir, dest_dir, fs) ==
    LET F[i \in 0..Len(fs)] ==
            IF i = 0 THEN [dest |-> dest_dir.tree, src |-> source_dir.tree, ok |-> TRUE]
            ELSE IF ~F[i - 1].ok THEN F[i - 1]
            ELSE IF copy2_ok(source_dir, dest_dir, fs[i])
                 THEN [F[i - 1] EXCEPT !.dest[fs[i]] = source_dir.tree[fs[i]]]
                 ELSE [F[i - 1] EXCEPT !.ok = FALSE]
    IN  F[Len(fs)]

\* ---------------------------------------------------------------- collaborators
\* (dataset.py, rsync.py and local.move / local.remove are not part of the
\* sources at hand; they follow the design document.)

\* A Location: the manifest's list of files, its ssh host, and the
\* fingerprint recorded for each listed path (0: none recorded).
Location(fs, ssh, sha) == [files |-> fs, ssh |-> ssh, sha |-> sha]

\* dataset.Location.diff: by set membership, then by fingerprint equality.
Location_diff(a, b) ==
    LET inb(p) == p \in Range(b.files)
        ina(p) == p \in Range(a.files)
        same(p) == a.sha[p] # 0 /\ a.sha[p] = b.sha[p]
        fa == a.files
        fb == b.files
    IN  ("==" :> MaskSelect(fa, [i \in 1..Len(fa) |-> inb(fa[i]) /\ same(fa[i])]))
        @@ ("?=" :> MaskSelect(fa, [i \in 1..Len(fa) |-> inb(fa[i]) /\ ~same(fa[i])]))
        @@ ("->" :> MaskSelect(fa, [i \in 1..Len(fa) |-> ~inb(fa[i])]))
        @@ ("<-" :> MaskSelect(fb, [i \in 1..Len(fb) |-> ~ina(fb[i])]))

\* rsync.diff: the tool's verdicts identical / would-transfer /
\* destination-only for the listed files, on whatever host they live.
rsync_diff(source_dir, dest_dir, fs) ==
    LET ins(p) == remote_exists(source_dir, p)
        ind(p) == remote_exists(dest_dir, p)
        eq(p) == source_dir.tree[p] = dest_dir.tree[p]
    IN  ("==" :> MaskSelect(fs, [i \in 1..Len(fs) |-> ins(fs[i]) /\ ind(fs[i]) /\ eq(fs[i])]))
        @@ ("->" :> MaskSelect(fs, [i \in 1..Len(fs) |->
                        ins(fs[i]) /\ (~ind(fs[i]) \/ ~eq(fs[i]))]))
        @@ ("<-" :> MaskSelect(fs, [i \in 1..Len(fs) |-> ~ins(fs[i]) /\ ind(fs[i])]))

\* rsync.copy: one batch; fails on the first file it cannot transfer.
rsync_copy(source_dir, dest_dir, fs) ==
    LET F[i \in 0..Len(fs)] ==
            IF i = 0 THEN [dest |-> dest_dir.tree, src |-> source_dir.tree, ok |-> TRUE]
            ELSE IF ~F[i - 1].ok THEN F[i - 1]
            ELSE IF remote_exists(source_dir, fs[i]) /\ dest_dir.isdir
                 THEN [F[i - 1] EXCEPT !.dest[fs[i]] = source_dir.tree[fs[i]]]
                 ELSE [F[i - 1] EXCEPT !.ok = FALSE]
    IN  F[Len(fs)]

\* local.move: copy and delete the source (or rename), file by file.
local_move(source_dir, dest_dir, fs) ==
    LET F[i \in 0..Len(fs)] ==
            IF i = 0 THEN [dest |-> dest_dir.tree, src |-> source_dir.tree, ok |-> TRUE]
            ELSE IF ~F[i - 1].ok THEN F[i - 1]
            ELSE IF copy2_ok(source_dir, dest_dir, fs[i])
                 THEN [F[i - 1] EXCEPT !.dest[fs[i]] = source_dir.tree[fs[i]],
                                       !.src[fs[i]] = 0]
                 ELSE [F[i - 1] EXCEPT !.ok = FALSE]
    IN  F[Len(fs)]

\* local.remove: delete file by file.
local_remove(source_dir, fs) ==
    LET F[i \in 0..Len(fs)] ==
            IF i = 0 THEN [src |-> source_dir.tree, ok |-> TRUE]
            ELSE IF ~F[i - 1].ok THEN F[i - 1]
            ELSE IF os_path_exists(source_dir, fs[i])
                 THEN [F[i - 1] EXCEPT !.src[fs[i]] = 0]
                 ELSE [F[i - 1] EXCEPT !.ok = FALSE]
    IN  F[Len(fs)]

\* ---------------------------------------------------------------- state
VARIABLES
    cmd,          \* the command that runs: "cp", "mv", "rm" or "diff"
    args,         \* the parsed command line
    has_rsync,    \* shutil.which("rsync") is not None
    sourceinfo,   \* the Location read from args.source
    destinfo,     \* the Location read from args.dest when it is a file
    srcTree,      \* the files below the source root
    dstTree,      \* the files below the destination root
    tree0,        \* <<srcTree, dstTree>> when the command started
    pc,           \* "start", "planned", "confirmed", "done"
    files,        \* the local variable files (the working list)
    equal,        \* the local variable equal
    status,       \* the local variable status
    mdiff,        \* the result of source.diff(dest) (manifest diff)
    ldiff,        \* the result of rsync.diff / local.diff (live diff)
    strategy,     \* which live diff ran: "rsync", "local" or "none"
    plan,         \* what output.copyplan / print rendered (NoPlan: nothing)
    notice,       \* the "nothing to do" line that was printed, or None
    prompted,     \* click.confirm was called
    answer,       \* what click.confirm returned: "yes" or "no" ("none": not asked)
    error,        \* the message of the exception that ended the run, or None
    backend,      \* the backend call that was made: [name, files], or NoCall
    written,      \* what yaml.dump wrote to args.output, or NotWritten
    outfile,      \* the YAML file a command reads before it writes (NoFile: none)
    target,       \* the name of the file that was written ("none": nothing)
    loc,          \* the Location object shelephant_hostinfo builds
    data,         \* what shelephant_get read from <remote.yaml> (NoData: nothing)
    marks,        \* the lists overwrite, create, skip of shelephant_get
    ret,          \* what main() of shelephant_get returned ("none": not yet)
    run,          \* 1, or 2 when shelephant_get runs again on the same file
    first,        \* how the first of two runs ended (NoRun: there is none)
    wd,           \* the working directory of the process (os.getcwd())
    stack,        \* the with-blocks of local.cwd / local.tempdir that are open
    dirs,         \* the directories that exist, each with its parent
    raising,      \* an exception is on its way out of the with-blocks
    last          \* the with-block that was left by the last step (NoExit: none)

vars == <<cmd, args, has_rsync, sourceinfo, destinfo, srcTree, dstTree, tree0,
          pc, files, equal, status, mdiff, ldiff, strategy, plan, notice,
          prompted, answer, error, backend, written, outfile, target, loc,
          data, marks, ret, run, first, wd, stack, dirs, raising, last>>

\* What only local.cwd and local.tempdir use.
context == <<wd, stack, dirs, raising, last>>

\* What only shelephant_dump, shelephant_hostinfo and shelephant_get use.
tools == <<outfile, target, loc, data, marks, ret, run, first>>

env == <<cmd, args, has_rsync, sourceinfo, destinfo, tree0>>

NoPlan == [rendered |-> FALSE, status |-> EmptyDict, lines |-> <<>>]
NoCall == [name |-> None, files |-> <<>>]
NotWritten == [done |-> FALSE, flat |-> FALSE, list |-> <<>>, dict |-> EmptyDict]
NoFile == [kind |-> "absent", list |-> <<>>]
NoMarks == [overwrite |-> <<>>, create |-> <<>>, skip |-> <<>>]
NoData == [files |-> <<>>, host |-> None, has_hash |-> FALSE, hash |-> <<>>]
NoRun == [force |-> FALSE, ret |-> "none", error |-> None]
\* A Python value with its type: == between a str and a pathlib.Path is
\* False whatever they spell.
Str(name) == [type |-> "str", value |-> name]
Path(name) == [type |-> "Path", value |-> name]

NoLoc == [files |-> <<>>, ssh |-> None, dump |-> Str(None)]

\* The root of the file system, and the record of no with-block left.
Root == 0
NoExit == [exited |-> FALSE, kind |-> "none", how |-> "none", entered |-> Root,
           outer |-> Root, from |-> Root]

\* ---------------------------------------------------------------- Init
\* The fingerprints a manifest can carry for its list: none at all
\* (shelephant_dump without --info) or one for every listed path.
Shas(fs) ==
    {EmptyTree} \cup {s \in Trees : \A p \in Paths : s[p] # 0 <=> p \in Range(fs)}

Manifests ==
    UNION {{Location(fs, h, s) : h \in Hosts, s \in Shas(fs)} : fs \in FileLists}

LocalManifests == {m \in Manifests : m.ssh = None}

PlainManifests == {Location(fs, h, EmptyTree) : fs \in FileLists, h \in Hosts}

NoLocation == Location(<<>>, None, EmptyTree)

\* Contents are only ever compared for equality, path by path: of the
\* runs that differ by a renaming of the contents of a path, the one that
\* numbers them in order of appearance is kept.
Max(S) == CHOOSE x \in S : \A y \in S : y <= x
InOrder(t) ==
    \A i \in 1..Len(t) : t[i] # 0 => t[i] <= 1 + Max({0} \cup {t[j] : j \in 1..(i - 1)})
Canonical ==
    \A p \in Paths :
        InOrder(<<srcTree[p], dstTree[p], sourceinfo.sha[p], destinfo.sha[p]>>)

Args(force, dry_run, sha256, ssh, source_is_file, dest_kind) ==
    [force |-> force, dry_run |-> dry_run, sha256 |-> sha256, ssh |-> ssh,
     source_is_file |-> source_is_file, dest_kind |-> dest_kind,
     filter |-> <<>>, output |-> FALSE]

\* The relation keys, and the values of --filter that are tried: none,
\* every single key (also "!=", which no diff of the model produces) and
\* one list of two keys.
Keys == {"==", "?=", "->", "<-"}
Filters == {<<>>} \cup {<<k>> : k \in Keys \cup {"!="}} \cup {<<"?=", "->">>}
DiffArgs(ssh, dest_kind, filter, output) ==
    [Args(FALSE, FALSE, FALSE, ssh, TRUE, dest_kind)
        EXCEPT !.filter = filter, !.output = output]

\* args.source is no file: nothing else is read.
InitNoSource ==
    /\ cmd \in {"cp", "mv", "rm", "diff"}
    /\ args = Args(FALSE, FALSE, FALSE, None, FALSE, "dir")
    /\ has_rsync \in BOOLEAN
    /\ sourceinfo = NoLocation /\ destinfo = NoLocation
    /\ srcTree \in Trees /\ dstTree \in Trees

\* shelephant_cp <sourceinfo.yaml> <dest_dirname> [--ssh <user@host>]
InitCpDir ==
    /\ cmd = "cp"
    /\ args \in {Args(f, n, s, h, TRUE, k) :
                    f \in BOOLEAN, n \in BOOLEAN, s \in BOOLEAN, h \in Hosts,
                    k \in {"dir", "none"}}
    /\ has_rsync \in BOOLEAN
    /\ sourceinfo \in PlainManifests /\ destinfo = NoLocation
    /\ srcTree \in Trees
    /\ dstTree \in IF args.dest_kind = "dir" THEN Trees ELSE {EmptyTree}

\* shelephant_cp <sourceinfo.yaml> <destinfo.yaml>
\* (the runs with a remote side are those of InitCpDir)
InitCpFile ==
    /\ cmd = "cp"
    /\ args \in {Args(f, n, s, None, TRUE, "file") :
                    f \in BOOLEAN, n \in BOOLEAN, s \in BOOLEAN}
    /\ has_rsync \in BOOLEAN
    /\ sourceinfo \in LocalManifests /\ destinfo \in LocalManifests
    /\ srcTree \in Trees /\ dstTree \in Trees

\* shelephant_mv <sourceinfo.yaml> <dest_dirname>
InitMv ==
    /\ cmd = "mv"
    /\ args \in {Args(f, n, FALSE, None, TRUE, k) :
                    f \in BOOLEAN, n \in BOOLEAN, k \in {"dir", "none", "file"}}
    /\ has_rsync \in BOOLEAN
    /\ sourceinfo \in PlainManifests /\ destinfo = NoLocation
    /\ srcTree \in Trees
    /\ dstTree \in IF args.dest_kind = "dir" THEN Trees ELSE {EmptyTree}

\* shelephant_rm <sourceinfo.yaml>
InitRm ==
    /\ cmd = "rm"
    /\ args \in {Args(f, n, FALSE, None, TRUE, "none") : f \in BOOLEAN, n \in BOOLEAN}
    /\ has_rsync \in BOOLEAN
    /\ sourceinfo \in PlainManifests /\ destinfo = NoLocation
    /\ srcTree \in Trees /\ dstTree = EmptyTree

\* shelephant_diff <sourceinfo.yaml> <dest_dirname> [--ssh <user@host>]
InitDiffDir ==
    /\ cmd = "diff"
    /\ args \in {DiffArgs(h, "dir", f, o) :
                    h \in Hosts, f \in Filters, o \in BOOLEAN}
    /\ has_rsync \in BOOLEAN
    /\ sourceinfo \in PlainManifests /\ destinfo = NoLocation
    /\ srcTree \in Trees /\ dstTree \in Trees

\* shelephant_diff <sourceinfo.yaml> <destinfo.yaml>
\* (neither the hosts nor the trees are read: "no live check is performed")
InitDiffFile ==
    /\ cmd = "diff"
    /\ args \in {DiffArgs(None, "file", f, o) : f \in Filters, o \in BOOLEAN}
    /\ has_rsync \in BOOLEAN
    /\ sourceinfo \in LocalManifests /\ destinfo \in LocalManifests
    /\ srcTree \in {EmptyTree, [p \in Paths |-> 1]} /\ dstTree = srcTree

\* Before its first statement a command has computed nothing.
Fresh ==
    /\ tree0 = <<srcTree, dstTree>>
    /\ pc = "start"
    /\ files = <<>> /\ equal = <<>>
    /\ status = EmptyDict /\ mdiff = EmptyDict /\ ldiff = EmptyDict
    /\ strategy = "none"
    /\ plan = NoPlan /\ notice = None /\ prompted = FALSE /\ answer = "none"
    /\ error = None /\ backend = NoCall /\ written = NotWritten
    /\ target = "none" /\ loc = NoLoc /\ marks = NoMarks /\ ret = "none"
    /\ run = 1 /\ first = NoRun

\* No with-block of local.cwd / local.tempdir is involved: the process
\* stays in the one directory there is.
NoContext ==
    /\ wd = Root /\ stack = <<>> /\ dirs = <<>> /\ raising = FALSE /\ last = NoExit

Init ==
    /\ NoContext
    /\ \/ InitNoSource \/ InitCpDir \/ InitCpFile \/ InitMv \/ InitRm
       \/ InitDiffDir \/ InitDiffFile
    /\ Canonical
    /\ outfile = NoFile /\ data = NoData
    /\ Fresh

\* ---------------------------------------------------------------- helpers
\* The run ends: by an exception (err is its message) or by a return.
Raise(err) == pc' = "done" /\ error' = err
Return == pc' = "done" /\ error' = None

\* dest of shelephant_cp / shelephant_diff: the manifest, or a bare Location.
dest_location ==
    IF args.dest_kind = "file" THEN destinfo ELSE Location(<<>>, args.ssh, EmptyTree)

\* source.hostpath and dest.hostpath with the trees they name.
source_dir == Dir(srcTree, sourceinfo.ssh, TRUE)
dest_dir == Dir(dstTree, dest_location.ssh, args.dest_kind # "none")

\* The answer to the prompt is not looked at.
declined_never(a) == FALSE

\* The answer to the prompt is read the wrong way round.
declined_inverted(a) == a

\* if not click.confirm("Proceed?"): raise OSError("Cancelled")
declined(a) == ~a

\* The assertion on "<-" is not made.
no_reverse_unchecked(st) == TRUE

\* assert status.pop("<-", []) == []
no_reverse(st) == DictGet(st, "<-") = <<>>

\* The early return on an empty list is not taken.
nothing_to_do_never(fs) == FALSE

\* The early return is taken whatever the list holds.
nothing_to_do_always(fs) == TRUE

\* if len(files) == 0: print(...); return
nothing_to_do(fs) == Len(fs) = 0

\* --dry-run does not stop the command.
dry_run_ignored == FALSE

\* if args.dry_run: return
dry_run_returns == args.dry_run

\* --force and --dry-run are accepted together.
force_with_dry_run_accepted == FALSE

\* assert not args.force if args.dry_run else True
force_with_dry_run == args.dry_run /\ args.force

\* The host of the source manifest is not looked at.
is_remote_never(source) == FALSE

\* assert source.ssh is None, "Cannot move from remote"
is_remote(source) == source.ssh # None

\* output.copyplan(status)
copyplan(st) == [rendered |-> TRUE, status |-> st, lines |-> <<>>]

\* ---------------------------------------------------------------- shelephant_cp
\* --sha256 is not looked at.
diff_with_rsync_whenever == has_rsync

\* if has_rsync and not args.sha256:
diff_with_rsync == has_rsync /\ ~args.sha256

\* Lines 247-278: the checks, the manifest diff, the live diff, the
\* assertion on "<-" and the early return.
CpPlan ==
    /\ pc = "start" /\ cmd = "cp"
    /\ LET files0 == sourceinfo.files
           md == Location_diff(sourceinfo, dest_location)
           equal0 == md["=="]
           files1 == ListRemove(files0, equal0)
           use_rsync == diff_with_rsync
           ld == IF use_rsync THEN rsync_diff(source_dir, dest_dir, files1)
                 ELSE local_diff(source_dir, dest_dir, files1)
           eq == IF use_rsync THEN DictGet(ld, "==") ELSE <<>>
           files2 == IF use_rsync THEN ListRemove(files1, eq) ELSE files1
           equal1 == equal0 \o eq
           status1 == IF use_rsync THEN DictPop(ld, "==") ELSE ld
       IN  IF ~args.source_is_file
           THEN /\ Raise("Source must be a file")
                /\ UNCHANGED <<files, equal, status, mdiff, ldiff, strategy, notice>>
           ELSE IF force_with_dry_run
           THEN /\ Raise("Cannot use --force with --dry-run")
                /\ UNCHANGED <<files, equal, status, mdiff, ldiff, strategy, notice>>
           ELSE IF ~use_rsync /\ local_diff_raises(files1)
           THEN /\ Raise("TypeError")
                /\ files' = files1
                /\ equal' = equal0
                /\ mdiff' = md
                /\ strategy' = "local"
                /\ UNCHANGED <<status, ldiff, notice>>
           ELSE /\ files' = files2
                /\ equal' = equal1
                /\ mdiff' = md
                /\ ldiff' = ld
                /\ strategy' = IF use_rsync THEN "rsync" ELSE "local"
                /\ status' = DictPop(status1, "<-")
                /\ IF ~no_reverse(status1)
                   THEN Raise("Cannot copy from destination to source")
                        /\ notice' = notice
                   ELSE IF nothing_to_do(files2)
                   THEN Return
                        /\ notice' = IF Len(equal1) = 0 THEN "Nothing to copy"
                                     ELSE "All files equal"
                   ELSE pc' = "planned" /\ error' = error /\ notice' = notice
    /\ UNCHANGED <<env, context, tools, written, srcTree, dstTree, plan, prompted, answer, backend>>

\* Lines 280-286: the plan, --dry-run, the prompt.
CpConfirm ==
    /\ pc = "planned" /\ cmd = "cp"
    /\ IF args.force
       THEN /\ pc' = "confirmed"
            /\ UNCHANGED <<status, plan, prompted, answer, error>>
       ELSE /\ status' = DictSet(status, "==", equal)
            /\ plan' = copyplan(status')
            /\ IF dry_run_returns
               THEN Return /\ UNCHANGED <<prompted, answer>>
               ELSE /\ prompted' = TRUE
                    /\ \E a \in BOOLEAN :
                          /\ answer' = IF a THEN "yes" ELSE "no"
                          /\ IF declined(a) THEN Raise("Cancelled")
                             ELSE pc' = "confirmed" /\ error' = error
    /\ UNCHANGED <<env, context, tools, written, srcTree, dstTree, files, equal, mdiff, ldiff, strategy,
                   notice, backend>>

\* Lines 288-291: the backend.
CpExecute ==
    /\ pc = "confirmed" /\ cmd = "cp"
    /\ LET r == IF has_rsync THEN rsync_copy(source_dir, dest_dir, files)
                ELSE local_copy(source_dir, dest_dir, files)
       IN  /\ backend' = [name |-> IF has_rsync THEN "rsync.copy" ELSE "local.copy",
                          files |-> files]
           /\ dstTree' = r.dest
           /\ srcTree' = r.src
           /\ IF r.ok THEN Return ELSE Raise("TransferError")
    /\ UNCHANGED <<env, context, tools, written, files, equal, status, mdiff, ldiff, strategy, plan,
                   notice, prompted, answer>>

\* ---------------------------------------------------------------- shelephant_mv
\* Lines 334-350.
MvPlan ==
    /\ pc = "start" /\ cmd = "mv"
    /\ LET ld == local_diff(Dir(srcTree, None, TRUE), Dir(dstTree, None, TRUE),
                            sourceinfo.files)
       IN  IF ~args.source_is_file
           THEN /\ Raise("Source must be a file")
                /\ UNCHANGED <<files, status, ldiff, strategy, notice>>
           ELSE IF args.dest_kind # "dir"
           THEN /\ Raise("Destination must be a directory")
                /\ UNCHANGED <<files, status, ldiff, strategy, notice>>
           ELSE IF force_with_dry_run
           THEN /\ Raise("Cannot use --force with --dry-run")
                /\ UNCHANGED <<files, status, ldiff, strategy, notice>>
           ELSE IF is_remote(sourceinfo)
           THEN /\ Raise("Cannot move from remote")
                /\ UNCHANGED <<files, status, ldiff, strategy, notice>>
           ELSE IF local_diff_raises(sourceinfo.files)
           THEN /\ Raise("TypeError")
                /\ files' = sourceinfo.files
                /\ strategy' = "local"
                /\ UNCHANGED <<status, ldiff, notice>>
           ELSE /\ files' = sourceinfo.files
                /\ ldiff' = ld
                /\ strategy' = "local"
                /\ status' = DictPop(ld, "<-")
                /\ IF ~no_reverse(ld)
                   THEN Raise("Cannot move from destination to source")
                        /\ notice' = notice
                   ELSE IF nothing_to_do(sourceinfo.files)
                   THEN Return /\ notice' = "Nothing to move"
                   ELSE pc' = "planned" /\ error' = error /\ notice' = notice
    /\ UNCHANGED <<env, context, tools, written, srcTree, dstTree, equal, mdiff, plan, prompted, answer, backend>>

\* Lines 352-357.
MvConfirm ==
    /\ pc = "planned" /\ cmd = "mv"
    /\ IF args.force
       THEN /\ pc' = "confirmed"
            /\ UNCHANGED <<plan, prompted, answer, error>>
       ELSE /\ plan' = copyplan(status)
            /\ IF dry_run_returns
               THEN Return /\ UNCHANGED <<prompted, answer>>
               ELSE /\ prompted' = TRUE
                    /\ \E a \in BOOLEAN :
                          /\ answer' = IF a THEN "yes" ELSE "no"
                          /\ IF declined(a) THEN Raise("Cancelled")
                             ELSE pc' = "confirmed" /\ error' = error
    /\ UNCHANGED <<env, context, tools, written, srcTree, dstTree, files, equal, status, mdiff, ldiff,
                   strategy, notice, backend>>

\* Line 359.
MvExecute ==
    /\ pc = "confirmed" /\ cmd = "mv"
    /\ LET r == local_move(Dir(srcTree, None, TRUE), Dir(dstTree, None, TRUE), files)
       IN  /\ backend' = [name |-> "local.move", files |-> files]
           /\ dstTree' = r.dest
           /\ srcTree' = r.src
           /\ IF r.ok THEN Return ELSE Raise("TransferError")
    /\ UNCHANGED <<env, context, tools, written, files, equal, status, mdiff, ldiff, strategy, plan,
                   notice, prompted, answer>>

\* ---------------------------------------------------------------- shelephant_rm
\* Lines 401-413.
RmPlan ==
    /\ pc = "start" /\ cmd = "rm"
    /\ IF ~args.source_is_file
       THEN Raise("Source must be a file") /\ UNCHANGED <<files, notice>>
       ELSE IF force_with_dry_run
       THEN Raise("Cannot use --force with --dry-run") /\ UNCHANGED <<files, notice>>
       ELSE IF is_remote(sourceinfo)
       THEN Raise("Cannot move from remote") /\ UNCHANGED <<files, notice>>
       ELSE /\ files' = sourceinfo.files
            /\ IF nothing_to_do(sourceinfo.files)
               THEN Return /\ notice' = "Nothing to remove"
               ELSE pc' = "planned" /\ error' = error /\ notice' = notice
    /\ UNCHANGED <<env, context, tools, written, srcTree, dstTree, equal, status, mdiff, ldiff, strategy,
                   plan, prompted, answer, backend>>

\* Lines 415-421.
RmConfirm ==
    /\ pc = "planned" /\ cmd = "rm"
    /\ IF args.force
       THEN /\ pc' = "confirmed"
            /\ UNCHANGED <<plan, prompted, answer, error>>
       ELSE /\ plan' = [rendered |-> TRUE, status |-> EmptyDict, lines |-> files]
            /\ IF dry_run_returns
               THEN Return /\ UNCHANGED <<prompted, answer>>
               ELSE /\ prompted' = TRUE
                    /\ \E a \in BOOLEAN :
                          /\ answer' = IF a THEN "yes" ELSE "no"
                          /\ IF declined(a) THEN Raise("Cancelled")
                             ELSE pc' = "confirmed" /\ error' = error
    /\ UNCHANGED <<env, context, tools, written, srcTree, dstTree, files, equal, status, mdiff, ldiff,
                   strategy, notice, backend>>

\* Line 423.
RmExecute ==
    /\ pc = "confirmed" /\ cmd = "rm"
    /\ LET r == local_remove(Dir(srcTree, None, TRUE), files)
       IN  /\ backend' = [name |-> "local.remove", files |-> files]
           /\ srcTree' = r.src
           /\ IF r.ok THEN Return ELSE Raise("TransferError")
    /\ UNCHANGED <<env, context, tools, written, dstTree, files, equal, status, mdiff, ldiff, strategy,
                   plan, notice, prompted, answer>>

\* ---------------------------------------------------------------- shelephant_diff
\* The empty lists stay in the status.
DropEmpty_keep(st) == st

\* for key in list(status.keys()): if len(status[key]) == 0: del status[key]
DropEmpty(st) == [k \in {x \in DOMAIN st : Len(st[x]) # 0} |-> st[k]]

\* The rows of the table, in the order they are added (lines 614-629).
TableRows(st) ==
    LET row(k) == [i \in 1..Len(DictGet(st, k)) |-> <<k, st[k][i]>>]
    IN  row("?=") \o row("->") \o row("<-") \o row("==")

\* The strategy taken from rsync first, whatever the destination is.
diff_strategy_rsync_first ==
    IF has_rsync THEN "rsync"
    ELSE IF args.dest_kind = "file" THEN "manifest" ELSE "local"

\* Lines 577-588: `if args.dest.is_file()` ... `else: if has_rsync` ...
\* `else`: which diff shelephant_diff calls.
diff_strategy ==
    IF args.dest_kind = "file" THEN "manifest"
    ELSE IF has_rsync THEN "rsync" ELSE "local"

\* Lines 576-588: the status shelephant_diff computes for the source
\* manifest and the destination, as they are now.
diff_status ==
    IF diff_strategy = "manifest" THEN Location_diff(sourceinfo, dest_location)
    ELSE IF diff_strategy = "rsync"
    THEN rsync_diff(source_dir, dest_dir, sourceinfo.files)
    ELSE local_diff(source_dir, dest_dir, sourceinfo.files)

\* Lines 571-634.
Diff ==
    /\ pc = "start" /\ cmd = "diff"
    /\ LET manifest == diff_strategy = "manifest"
           st0 == diff_status
           st1 == DropEmpty(st0)
           keys == args.filter
           st2 == IF keys = <<>> THEN st1
                  ELSE [k \in Range(keys) |-> st1[k]]
       IN  IF ~args.source_is_file
           THEN /\ Raise("Source must be a file")
                /\ UNCHANGED <<files, status, mdiff, ldiff, strategy, plan, written>>
           ELSE IF diff_strategy = "local" /\ sourceinfo.ssh # None
           THEN /\ Raise("Specify sourceinfo, or install rsync")
                /\ UNCHANGED <<files, status, mdiff, ldiff, strategy, plan, written>>
           ELSE IF diff_strategy = "local" /\ dest_location.ssh # None
           THEN /\ Raise("Specify destinfo, or install rsync")
                /\ UNCHANGED <<files, status, mdiff, ldiff, strategy, plan, written>>
           ELSE IF diff_strategy = "local" /\ local_diff_raises(sourceinfo.files)
           THEN /\ Raise("TypeError")
                /\ files' = sourceinfo.files
                /\ strategy' = "local"
                /\ UNCHANGED <<status, mdiff, ldiff, plan, written>>
           ELSE /\ files' = IF manifest THEN files ELSE sourceinfo.files
                /\ mdiff' = IF manifest THEN st0 ELSE mdiff
                /\ ldiff' = IF manifest THEN ldiff ELSE st0
                /\ strategy' = diff_strategy
                /\ IF \E k \in Range(keys) : k \notin DOMAIN st1
                   THEN /\ Raise("KeyError")
                        /\ status' = st1
                        /\ UNCHANGED <<plan, written>>
                   ELSE /\ Return
                        /\ status' = st2
                        /\ IF args.output
                           THEN /\ written' =
                                     IF Cardinality(DOMAIN st2) = 1
                                     THEN [done |-> TRUE, flat |-> TRUE,
                                           list |-> st2[CHOOSE k \in DOMAIN st2 : TRUE],
                                           dict |-> EmptyDict]
                                     ELSE [done |-> TRUE, flat |-> FALSE,
                                           list |-> <<>>, dict |-> st2]
                                /\ plan' = plan
                           ELSE /\ plan' = [rendered |-> TRUE, status |-> st2,
                                            lines |-> TableRows(st2)]
                                /\ written' = written
    /\ UNCHANGED <<env, context, tools, srcTree, dstTree, equal, notice, prompted, answer, backend>>

Next ==
    \/ CpPlan \/ CpConfirm \/ CpExecute
    \/ MvPlan \/ MvConfirm \/ MvExecute
    \/ RmPlan \/ RmConfirm \/ RmExecute
    \/ Diff

Spec == Init /\ [][Next]_vars

\* ---------------------------------------------------------------- shelephant_diff alone
\* shelephant_diff <sourceinfo.yaml> <dest> [--ssh <user@host>]: dest is a
\* directory, a manifest, or nothing that exists; with a manifest at both
\* ends every manifest (with or without host and fingerprints) is tried.
AllThere == [p \in Paths |-> 1]
InitDiffAny ==
    /\ cmd = "diff"
    /\ args \in {DiffArgs(h, k, f, o) :
                    h \in Hosts, k \in {"dir", "none", "file"}, f \in Filters,
                    o \in BOOLEAN}
    /\ has_rsync \in BOOLEAN
    /\ sourceinfo \in IF args.dest_kind = "file" THEN Manifests ELSE PlainManifests
    /\ destinfo \in IF args.dest_kind = "file" THEN Manifests ELSE {NoLocation}
    /\ srcTree \in IF args.dest_kind = "file" THEN {EmptyTree, AllThere} ELSE Trees
    /\ dstTree \in IF args.dest_kind = "file" THEN {srcTree}
                   ELSE IF args.dest_kind = "dir" THEN Trees ELSE {EmptyTree}

DiffInit ==
    /\ NoContext
    /\ InitDiffAny
    /\ Canonical
    /\ outfile = NoFile /\ data = NoData
    /\ Fresh

DiffNext == Diff

SpecDiff == DiffInit /\ [][DiffNext]_vars

\* ---------------------------------------------------------------- shelephant_dump
\* The bounds of the lists shelephant_dump is given and finds.
MaxGiven == 2
MaxStored == 2

\* Lists of names as they come from the command line: repeats are possible.
Lists(n) == UNION {[1..k -> Paths] : k \in 0..n}

\* The file args.output as shelephant_dump finds it: not there, a flat
\* list, or a mapping (as shelephant_hostinfo writes one).
StoredFiles ==
    {NoFile, [kind |-> "dict", list |-> <<>>]}
        \cup {[kind |-> "list", list |-> l] : l \in Lists(MaxStored)}

\* --keep: one set of matching names per pattern (re.match(pattern, file));
\* no pattern, one, two that share no name, two that both match name 1.
Keeps == {<<>>, <<{1}>>, <<{NPaths}, {1}>>, <<{1}, Paths>>}
\* --exclude / --exclude-extension: the names some pattern matches.
Excludes == {{}, {1}}

DumpArgs(append, force, sort, keep, exclude, fs) ==
    [append |-> append, force |-> force, sort |-> sort, keep |-> keep,
     exclude |-> exclude, files |-> fs]

\* shelephant_dump [-a] [-f] [-s] [-k ...] [-e ...] <files>; the names are
\* those of line 168 (relative to the root).
InitDump ==
    /\ cmd = "dump"
    /\ args \in {DumpArgs(a, f, st, k, e, fs) :
                    a \in BOOLEAN, f \in BOOLEAN, st \in BOOLEAN,
                    k \in Keeps, e \in Excludes, fs \in Lists(MaxGiven)}
    /\ outfile \in StoredFiles /\ data = NoData
    /\ has_rsync = FALSE
    /\ sourceinfo = NoLocation /\ destinfo = NoLocation
    /\ srcTree = EmptyTree /\ dstTree = EmptyTree

\* Lines 170-174: for pattern in args.keep: ret += [matching files].
keep_filter(fs, keep) ==
    LET F[i \in 0..Len(keep)] ==
            IF i = 0 THEN <<>>
            ELSE F[i - 1] \o MaskSelect(fs, [j \in 1..Len(fs) |-> fs[j] \in keep[i]])
    IN  IF keep = <<>> THEN fs ELSE F[Len(keep)]

\* Lines 176-183: the files no pattern excludes.
exclude_filter(fs, exclude) ==
    MaskSelect(fs, [j \in 1..Len(fs) |-> fs[j] \notin exclude])

\* Lines 185-186: sorted(files).
sorted(fs) == SortSeq(fs, LAMBDA a, b : a < b)

\* The list as it stands at line 194.
dump_files ==
    LET kept == keep_filter(args.files, args.keep)
        left == exclude_filter(kept, args.exclude)
    IN  IF args.sort THEN sorted(left) ELSE left

\* The stored list and the new one swapped.
appended_in_front(main, fs) == fs \o main

\* files = main + files
appended(main, fs) == main \o fs

\* --append does not force the overwrite.
append_forces_never == FALSE

\* args.force = True  (inside `if args.append:`)
append_forces == args.append

\* assert type(main) == list
is_flat(file) == file.kind = "list"

\* yaml.dump(filename, data, force): a file that is there is overwritten
\* only with force or after the prompt.
asks_overwrite(file, force) == file.kind # "absent" /\ ~force

\* yaml.read(filename) raises for a file that is not there.
unreadable(file) == file.kind = "absent"

\* Lines 194-200.
Dump ==
    /\ pc = "start" /\ cmd = "dump"
    /\ LET dumped == IF args.append THEN appended(outfile.list, dump_files)
                   ELSE dump_files
           force == args.force \/ append_forces
       IN  IF args.append /\ unreadable(outfile)
           THEN /\ Raise("FileNotFoundError")
                /\ UNCHANGED <<files, written, target, prompted, answer>>
           ELSE IF args.append /\ ~is_flat(outfile)
           THEN /\ Raise("Can only append a \"flat\" file")
                /\ UNCHANGED <<files, written, target, prompted, answer>>
           ELSE /\ files' = dumped
                /\ IF asks_overwrite(outfile, force)
                   THEN /\ prompted' = TRUE
                        /\ \E a \in BOOLEAN :
                              /\ answer' = IF a THEN "yes" ELSE "no"
                              /\ IF declined(a)
                                 THEN /\ Raise("Cancelled")
                                      /\ UNCHANGED <<written, target>>
                                 ELSE /\ Return
                                      /\ written' = [done |-> TRUE, flat |-> TRUE,
                                                     list |-> dumped, dict |-> EmptyDict]
                                      /\ target' = "output"
                   ELSE /\ Return
                        /\ written' = [done |-> TRUE, flat |-> TRUE,
                                       list |-> dumped, dict |-> EmptyDict]
                        /\ target' = "output"
                        /\ UNCHANGED <<prompted, answer>>
    /\ UNCHANGED <<env, context, outfile, loc, data, marks, ret, run, first, srcTree, dstTree,
                   equal, status, mdiff, ldiff, strategy, plan, notice, backend>>

DumpInit == InitDump /\ Fresh /\ NoContext

DumpNext == Dump

SpecDump == DumpInit /\ [][DumpNext]_vars

\* ---------------------------------------------------------------- shelephant_get
\* The bound of the list of <remote.yaml>.
MaxListed == 2

\* GetSHA256(filename): the fingerprint of the content of a file.
GetSHA256(c) == <<"sha256", c>>
Hashes == {GetSHA256(c) : c \in 1..MaxContent}

\* <remote.yaml>: 'files', optionally 'host', optionally 'hash' with one
\* entry per file.
RemoteData ==
    UNION {{[files |-> fs, host |-> h, has_hash |-> TRUE, hash |-> hs] :
                h \in Hosts, hs \in [1..Len(fs) -> Hashes]}
           \cup {[files |-> fs, host |-> h, has_hash |-> FALSE, hash |-> <<>>] :
                h \in Hosts}
           : fs \in Lists(MaxListed)}

\* shelephant_get [-f] <remote.yaml>
InitGet ==
    /\ cmd = "get"
    /\ args \in {[force |-> f] : f \in BOOLEAN}
    /\ data \in RemoteData
    /\ srcTree \in Trees /\ dstTree \in Trees
    /\ outfile = NoFile
    /\ has_rsync = FALSE
    /\ sourceinfo = NoLocation /\ destinfo = NoLocation

\* os.path.isfile(dest[i])
isfile(tree, file) == tree[file] # 0

\* The loop body that skips every file the destination has.
get_mark_exists(d, tree, i) ==
    IF isfile(tree, d.files[i]) THEN "skip" ELSE "create"

\* The loop body that does not look at the hashes.
get_mark_nohash(d, tree, i) ==
    IF isfile(tree, d.files[i]) THEN "overwrite" ELSE "create"

\* Lines 50-57: the body of the loop over i.
get_mark(d, tree, i) ==
    IF isfile(tree, d.files[i])
    THEN IF d.has_hash /\ GetSHA256(tree[d.files[i]]) = d.hash[i]
         THEN "skip"
         ELSE "overwrite"
    ELSE "create"

\* Lines 44-57: the three lists.
get_marks(d, tree) ==
    [overwrite |-> [i \in 1..Len(d.files) |-> get_mark(d, tree, i) = "overwrite"],
     create |-> [i \in 1..Len(d.files) |-> get_mark(d, tree, i) = "create"],
     skip |-> [i \in 1..Len(d.files) |-> get_mark(d, tree, i) = "skip"]]

\* all(skip)
all(mask) == \A i \in 1..Len(mask) : mask[i]

\* Lines 71-89: one line per file, with "->", "==" or "=>".
get_lines(d, m) ==
    [i \in 1..Len(d.files) |->
        <<IF m.create[i] THEN "->" ELSE IF m.skip[i] THEN "==" ELSE "=>", d.files[i]>>]

\* Lines 102-111: the copy loop; scp or shutil.copy raises for a source
\* file that is not there, which leaves the loop.
get_copy(d, src, dest, skip) ==
    LET F[i \in 0..Len(d.files)] ==
            IF i = 0 THEN [dest |-> dest, ok |-> TRUE, indices |-> <<>>]
            ELSE IF ~F[i - 1].ok THEN F[i - 1]
            ELSE IF skip[i] THEN F[i - 1]
            ELSE IF isfile(src, d.files[i])
                 THEN [F[i - 1] EXCEPT !.dest[d.files[i]] = src[d.files[i]],
                                       !.indices = Append(@, i)]
                 ELSE [F[i - 1] EXCEPT !.ok = FALSE]
    IN  F[Len(d.files)]

\* Lines 36-96: the classification, the listing, the early return and the
\* prompt.  max() of line 69 raises for an empty list.
GetPlan ==
    /\ pc = "start" /\ cmd = "get"
    /\ LET m == get_marks(data, dstTree)
       IN  /\ marks' = m
           /\ IF Len(data.files) = 0
              THEN /\ Raise("ValueError")
                   /\ UNCHANGED <<plan, ret, prompted, answer>>
              ELSE /\ plan' = [rendered |-> TRUE, status |-> EmptyDict,
                               lines |-> get_lines(data, m)]
                   /\ IF all(m.skip)
                      THEN /\ Return /\ ret' = "0"
                           /\ UNCHANGED <<prompted, answer>>
                      ELSE IF args.force
                      THEN /\ pc' = "confirmed"
                           /\ UNCHANGED <<ret, error, prompted, answer>>
                      ELSE /\ prompted' = TRUE
                           /\ \E a \in BOOLEAN :
                                 /\ answer' = IF a THEN "yes" ELSE "no"
                                 /\ IF declined(a)
                                    THEN Return /\ ret' = "1"
                                    ELSE pc' = "confirmed" /\ UNCHANGED <<ret, error>>
    /\ UNCHANGED <<env, context, outfile, target, loc, data, run, first, written, srcTree,
                   dstTree, files, equal, status, mdiff, ldiff, strategy, notice,
                   backend>>

\* Lines 98-111.
GetCopy ==
    /\ pc = "confirmed" /\ cmd = "get"
    /\ LET r == get_copy(data, srcTree, dstTree, marks.skip)
       IN  /\ backend' = [name |-> IF data.host # None THEN "scp" ELSE "shutil.copy",
                          files |-> [k \in 1..Len(r.indices) |-> data.files[r.indices[k]]],
                          indices |-> r.indices]
           /\ dstTree' = r.dest
           /\ IF r.ok THEN Return /\ ret' = "None"
              ELSE Raise("TransferError") /\ ret' = ret
    /\ UNCHANGED <<env, context, outfile, target, loc, data, marks, run, first, written,
                   srcTree, files, equal, status, mdiff, ldiff, strategy, plan,
                   notice, prompted, answer>>

\* The command is run a second time on the same <remote.yaml>, with the
\* directories as the first run left them.
GetAgain ==
    /\ pc = "done" /\ cmd = "get" /\ run = 1
    /\ run' = 2
    /\ first' = [force |-> args.force, ret |-> ret, error |-> error]
    /\ args' \in {[force |-> f] : f \in BOOLEAN}
    /\ tree0' = <<srcTree, dstTree>>
    /\ pc' = "start" /\ marks' = NoMarks /\ ret' = "none" /\ plan' = NoPlan
    /\ prompted' = FALSE /\ answer' = "none" /\ error' = None /\ backend' = NoCall
    /\ UNCHANGED <<context, cmd, has_rsync, sourceinfo, destinfo, outfile, target, loc, data,
                   written, srcTree, dstTree, files, equal, status, mdiff, ldiff,
                   strategy, notice>>

GetInit == InitGet /\ Fresh /\ NoContext

GetNext ==
    \/ GetPlan \/ GetCopy \/ GetAgain

SpecGet == GetInit /\ [][GetNext]_vars

\* ---------------------------------------------------------------- shelephant_hostinfo
\* f_hostinfo = "shelephant_hostinfo.yaml", f_dump = "shelephant_dump.yaml"
f_hostinfo == Str("shelephant_hostinfo.yaml")
f_dump == Str("shelephant_dump.yaml")

\* What -o can be given on the command line; "" stands for: not given.
OutputOptions == {"", "shelephant_hostinfo.yaml", "other.yaml"}
\* What -d can be given: not given, given without a value, given with one.
DumpOptions == {"", "-d", "mydump.yaml"}

\* parser.add_argument("-o", type=pathlib.Path, default=f_hostinfo):
\* argparse passes a default that is a string through type, as it does
\* with a value of the command line.
parse_output(given) == IF given = "" THEN Path(f_hostinfo.value) ELSE Path(given)

\* parser.add_argument("-d", type=pathlib.Path, default=None, nargs="?",
\* const=f_dump): None is no string and stays None.
parse_dump(given) ==
    IF given = "" THEN Str(None)
    ELSE IF given = "-d" THEN Path(f_dump.value) ELSE Path(given)

HostinfoArgs(update, output, dump, ssh, force) ==
    [update |-> update, output_given |-> output, dump_given |-> dump,
     output |-> parse_output(output), dump |-> parse_dump(dump),
     ssh |-> ssh, force |-> force]

\* shelephant_hostinfo [--update] [-o ...] [-d ...] [--ssh ...] [-f] <path>
\* sourceinfo: what the YAML file <path> holds (read with --update);
\* outfile: the file args.output names, as found; srcTree: the files below
\* the root.
InitHostinfo ==
    /\ cmd = "hostinfo"
    /\ args \in {HostinfoArgs(u, o, d, h, f) :
                    u \in BOOLEAN, o \in OutputOptions, d \in DumpOptions,
                    h \in Hosts, f \in BOOLEAN}
    /\ sourceinfo \in PlainManifests /\ destinfo = NoLocation
    /\ outfile \in {NoFile, [kind |-> "dict", list |-> <<>>]}
    /\ srcTree \in {t \in Trees : \A p \in Paths : t[p] <= 1} /\ dstTree = EmptyTree
    /\ data = NoData
    /\ has_rsync = FALSE

\* The comparison by the name the path spells (what the usage text of
\* --update describes).
is_default_by_name(output) == output.value = f_hostinfo.value

\* args.output == f_hostinfo
is_default(output) == output = f_hostinfo

\* loc.read(): the list of files is read again from what the root holds.
Location_read(l, tree) ==
    [l EXCEPT !.files = SortSeq(CHOOSE q \in FileLists :
                                    Range(q) = {p \in Paths : tree[p] # 0},
                                LAMBDA a, b : a < b)]

\* Lines 495-511.
Hostinfo ==
    /\ pc = "start" /\ cmd = "hostinfo"
    /\ IF args.update /\ ~is_default(args.output)
       THEN /\ Raise("No customisation allowed in --update mode.")
            /\ UNCHANGED <<loc, written, target, prompted, answer>>
       ELSE IF args.update /\ args.dump # Str(None)
       THEN /\ Raise("No customisation allowed in --update mode.")
            /\ UNCHANGED <<loc, written, target, prompted, answer>>
       ELSE IF args.update /\ args.ssh # None
       THEN /\ Raise("No customisation allowed in --update mode.")
            /\ UNCHANGED <<loc, written, target, prompted, answer>>
       ELSE LET loc0 == IF args.update
                        THEN [files |-> sourceinfo.files, ssh |-> sourceinfo.ssh,
                              dump |-> Str(None)]
                        ELSE [files |-> <<>>, ssh |-> args.ssh, dump |-> args.dump]
                loc1 == Location_read(loc0, srcTree)
                force == args.force \/ args.update
                found == IF args.update THEN [kind |-> "dict", list |-> <<>>]
                         ELSE outfile
                wrote == [done |-> TRUE, flat |-> FALSE, list |-> loc1.files,
                          dict |-> EmptyDict]
                name == IF args.update THEN "path" ELSE "output"
            IN  /\ loc' = loc1
                /\ IF asks_overwrite(found, force)
                   THEN /\ prompted' = TRUE
                        /\ \E a \in BOOLEAN :
                              /\ answer' = IF a THEN "yes" ELSE "no"
                              /\ IF declined(a)
                                 THEN Raise("Cancelled") /\ UNCHANGED <<written, target>>
                                 ELSE Return /\ written' = wrote /\ target' = name
                   ELSE /\ Return /\ written' = wrote /\ target' = name
                        /\ UNCHANGED <<prompted, answer>>
    /\ UNCHANGED <<env, context, outfile, data, marks, ret, run, first, srcTree, dstTree, files,
                   equal, status, mdiff, ldiff, strategy, plan, notice, backend>>

HostinfoInit == InitHostinfo /\ Fresh /\ NoContext

HostinfoNext == Hostinfo

SpecHostinfo == HostinfoInit /\ [][HostinfoNext]_vars

\* ---------------------------------------------------------------- local.cwd, local.tempdir
\* The depth to which the with-blocks are nested, and the number of
\* directories with a name (the temporary ones come on top).
MaxDepth == 3
NDirs == 2

NamedDirs == 1..NDirs
TempDirs == (NDirs + 1)..(NDirs + MaxDepth)

\* A path: absolute (it names the directory whatever the working directory
\* is) or the relative path "." that pathlib.Path() is.
Abs(d) == [kind |-> "absolute", dir |-> d]
Here == [kind |-> "relative", dir |-> Root]

\* The path is kept as it is: "." stays ".".
absolute_not(path, at) == path

\* pathlib.Path().absolute(): the path made absolute with os.getcwd().
absolute(path, at) == IF path.kind = "absolute" THEN path ELSE Abs(at)

\* The directory os.chdir(path) goes to from the working directory `at`.
resolve(path, at) == IF path.kind = "absolute" THEN path.dir ELSE at

\* os.chdir raises FileNotFoundError for a directory that is not there.
exists(ds, d) == d = Root \/ d \in DOMAIN ds

\* d is t or lies below t.
RECURSIVE Under(_, _, _)
Under(ds, d, t) ==
    \/ d = t
    \/ d \in DOMAIN ds /\ Under(ds, ds[d], t)

\* TemporaryDirectory.__exit__: the directory goes with all that is in it.
rmtree(ds, t) == [d \in {x \in DOMAIN ds : ~Under(ds, x, t)} |-> ds[d]]

\* tempfile.TemporaryDirectory(): a directory that was not there.
mkdtemp(ds) ==
    CHOOSE t \in TempDirs :
        t \notin DOMAIN ds /\ \A u \in TempDirs : u < t => u \in DOMAIN ds

\* The with-block that is entered: what the generator keeps in origin,
\* and for the record the directory the process was in (entered) and the
\* one it was in when the outermost open block was entered (outer).
Frame(kind, origin, temp) ==
    [kind |-> kind, origin |-> origin, temp |-> temp, entered |-> wd,
     outer |-> IF stack = <<>> THEN wd ELSE stack[1].outer]

Left(f, how) ==
    [exited |-> TRUE, kind |-> f.kind, how |-> how, entered |-> f.entered,
     outer |-> f.outer, from |-> wd]

\* Everything the commands use.
commands == <<cmd, args, has_rsync, sourceinfo, destinfo, srcTree, dstTree, tree0,
              pc, files, equal, status, mdiff, ldiff, strategy, plan, notice,
              prompted, answer, error, backend, written, tools>>

\* A test opens with-blocks in some directory; directories 1..NDirs may
\* be there, directly below the root.
InitCwd ==
    /\ cmd = "with" /\ args = <<>>
    /\ has_rsync = FALSE
    /\ sourceinfo = NoLocation /\ destinfo = NoLocation
    /\ srcTree = EmptyTree /\ dstTree = EmptyTree
    /\ outfile = NoFile /\ data = NoData
    /\ dirs \in UNION {[S -> {Root}] : S \in SUBSET NamedDirs}
    /\ wd \in {Root} \cup DOMAIN dirs
    /\ stack = <<>> /\ raising = FALSE /\ last = NoExit

\* local.py lines 72-75: with cwd(dirname), up to the yield.  When
\* os.chdir(dirname) raises, the finally clause runs and the exception
\* leaves the with statement.
EnterCwd(d) ==
    /\ cmd = "with" /\ ~raising /\ Len(stack) < MaxDepth
    /\ LET origin == absolute(Here, wd)
           f == Frame("cwd", origin, Root)
       IN  IF exists(dirs, d)
           THEN /\ wd' = d
                /\ stack' = Append(stack, f)
                /\ last' = NoExit
                /\ UNCHANGED raising
           ELSE /\ wd' = IF exists(dirs, resolve(origin, wd))
                         THEN resolve(origin, wd) ELSE wd
                /\ raising' = TRUE
                /\ last' = Left(f, "enter")
                /\ UNCHANGED stack
    /\ UNCHANGED <<commands, dirs>>

\* local.py lines 88-92: with tempdir(), up to the yield.
EnterTempdir ==
    /\ cmd = "with" /\ ~raising /\ Len(stack) < MaxDepth
    /\ LET origin == absolute(Here, wd)
           t == mkdtemp(dirs)
       IN  /\ dirs' = (t :> Root) @@ dirs
           /\ wd' = t
           /\ stack' = Append(stack, Frame("tempdir", origin, t))
    /\ last' = NoExit
    /\ UNCHANGED <<commands, raising>>

\* The body of a with-block changes the directory itself.
BodyChdir(d) ==
    /\ cmd = "with" /\ ~raising /\ stack # <<>>
    /\ exists(dirs, d) /\ d # wd
    /\ wd' = d
    /\ last' = NoExit
    /\ UNCHANGED <<commands, stack, dirs, raising>>

\* The body makes a directory in the working directory
\* (pathlib.Path("src").mkdir() of the tests).
BodyMkdir(d) ==
    /\ cmd = "with" /\ ~raising /\ stack # <<>>
    /\ d \in NamedDirs /\ ~exists(dirs, d)
    /\ dirs' = (d :> wd) @@ dirs
    /\ last' = NoExit
    /\ UNCHANGED <<commands, wd, stack, raising>>

\* The body raises.
BodyRaise ==
    /\ cmd = "with" /\ ~raising /\ stack # <<>>
    /\ raising' = TRUE
    /\ last' = NoExit
    /\ UNCHANGED <<commands, wd, stack, dirs>>

\* local.py lines 76-77 and 93-95: the innermost with-block is left, by
\* the end of its body or by the exception on its way: the finally clause
\* runs os.chdir(origin), and the temporary directory is removed after it.
Exit ==
    /\ cmd = "with" /\ stack # <<>>
    /\ LET f == stack[Len(stack)]
           to == resolve(f.origin, wd)
       IN  /\ IF exists(dirs, to)
              THEN wd' = to /\ UNCHANGED raising
              ELSE wd' = wd /\ raising' = TRUE
           /\ dirs' = IF f.kind = "tempdir" THEN rmtree(dirs, f.temp) ELSE dirs
           /\ stack' = SubSeq(stack, 1, Len(stack) - 1)
           /\ last' = Left(f, IF raising THEN "raised" ELSE "normal")
    /\ UNCHANGED commands

\* An except clause around a with statement takes the exception.
Catch ==
    /\ cmd = "with" /\ raising
    /\ raising' = FALSE
    /\ UNCHANGED <<commands, wd, stack, dirs, last>>

CwdInit == InitCwd /\ Fresh

CwdNext ==
    \/ \E d \in NamedDirs : EnterCwd(d)
    \/ EnterTempdir
    \/ \E d \in {Root} \cup NamedDirs \cup TempDirs : BodyChdir(d)
    \/ \E d \in NamedDirs : BodyMkdir(d)
    \/ BodyRaise
    \/ Exit
    \/ Catch

SpecCwd == CwdInit /\ [][CwdNext]_vars

\* ---------------------------------------------------------------- local.diff alone
\* The length of the list local.diff is called with.
MaxFiles == 3

\* local.diff(source_dir, dest_dir, files) called on its own: any list
\* (a path may be named twice), directories that may be host-qualified,
\* a destination that may not be there.
InitLocalDiff ==
    /\ cmd = "local.diff"
    /\ args \in {[files |-> fs, source_ssh |-> hs, dest_ssh |-> hd, dest_isdir |-> b] :
                    fs \in Lists(MaxFiles), hs \in Hosts, hd \in Hosts, b \in BOOLEAN}
    /\ has_rsync = FALSE
    /\ sourceinfo = NoLocation /\ destinfo = NoLocation
    /\ srcTree \in Trees
    /\ dstTree \in IF args.dest_isdir THEN Trees ELSE {EmptyTree}
    /\ outfile = NoFile /\ data = NoData

\* The two directories of the call.
call_source == Dir(tree0[1], args.source_ssh, TRUE)
call_dest == Dir(tree0[2], args.dest_ssh, args.dest_isdir)

\* local.py lines 52-60.
LocalDiffCall ==
    /\ pc = "start" /\ cmd = "local.diff"
    /\ strategy' = "local"
    /\ IF local_diff_raises(args.files)
       THEN Raise("TypeError") /\ UNCHANGED ldiff
       ELSE Return /\ ldiff' = local_diff(call_source, call_dest, args.files)
    /\ UNCHANGED <<env, context, tools, written, srcTree, dstTree, files, equal, status,
                   mdiff, plan, notice, prompted, answer, backend>>

LocalDiffInit == InitLocalDiff /\ Canonical /\ Fresh /\ NoContext

LocalDiffNext == LocalDiffCall

SpecLocalDiff == LocalDiffInit /\ [][LocalDiffNext]_vars

\* ---------------------------------------------------------------- properties
\* The paths of the two sides of a run: the source's list, and what the
\* destination holds (its manifest's list, the files below its root).
SourcePaths == Range(sourceinfo.files)
DestPaths == Range(dest_location.files) \cup {p \in Paths : tree0[2][p] # 0}

Covered(d) == UNION {Range(d[k]) : k \in DOMAIN d}
NoOverlap(d) ==
    /\ \A k \in DOMAIN d : Injective(d[k])
    /\ \A j, k \in DOMAIN d : j # k => Range(d[j]) \cap Range(d[k]) = {}

\* The diff results of a run: the manifest diff, the live diff, the status
\* as the command holds it and as the plan shows it.
DiffResults == {mdiff, ldiff, status, plan.status}

\* C1 (as stated): the relation lists of a diff result partition the union
\* of the source's paths and the destination's paths: every path of the
\* union is under exactly one key.
C1_PartitionOfUnion ==
    (strategy \in {"local", "rsync"} /\ error # "TypeError") =>
        /\ NoOverlap(ldiff)
        /\ Covered(ldiff) \cup Range(equal) = SourcePaths \cup DestPaths

\* C1 (amended): in every diff result no path is under two keys (nor twice
\* under one) and every path under a key belongs to the union of the
\* source's paths and the destination's paths; a path of the union may be
\* under no key of the live diff.
C1_DisjointWithinUnion ==
    \A d \in DiffResults :
        /\ NoOverlap(d)
        /\ Covered(d) \subseteq SourcePaths \cup DestPaths

\* A live diff with files on both sides and files on the source side only.
C1_Witness ==
    /\ strategy = "local"
    /\ DictGet(ldiff, "?=") # <<>> /\ DictGet(ldiff, "->") # <<>>
    /\ plan.rendered /\ "==" \in DOMAIN plan.status

\* What os.path.exists answered for a listed path when the diff ran.
SeenInSource(p) == sourceinfo.ssh = None /\ tree0[1][p] # 0
SeenInDest(p) ==
    dest_location.ssh = None /\ args.dest_kind # "none" /\ tree0[2][p] # 0

\* C2: local.diff classifies every listed path by the existence matrix
\* alone (both: "?=", source only: "->", destination only: "<-", neither:
\* unlisted) and its result has no "==" key.  (For an empty list it raises
\* and has no result.)
C2_ExistenceMatrix ==
    (strategy = "local" /\ error # "TypeError") =>
        /\ DOMAIN ldiff = {"?=", "->", "<-"}
        /\ \A p \in Paths :
            /\ p \in Range(ldiff["?="]) <=>
                    p \in Range(files) /\ SeenInSource(p) /\ SeenInDest(p)
            /\ p \in Range(ldiff["->"]) <=>
                    p \in Range(files) /\ SeenInSource(p) /\ ~SeenInDest(p)
            /\ p \in Range(ldiff["<-"]) <=>
                    p \in Range(files) /\ ~SeenInSource(p) /\ SeenInDest(p)

\* local.diff met a file on both sides and a file on the destination only.
C2_Witness ==
    /\ strategy = "local"
    /\ DictGet(ldiff, "?=") # <<>> /\ DictGet(ldiff, "<-") # <<>>

Trees0Kept == <<srcTree, dstTree>> = tree0

\* The errors raised before the files of the run are looked at.
EntryErrors ==
    {"Source must be a file", "Destination must be a directory",
     "Cannot use --force with --dry-run", "Cannot move from remote"}
ReverseErrors ==
    {"Cannot copy from destination to source", "Cannot move from destination to source"}

\* C3: in shelephant_cp and shelephant_mv a non-empty "<-" set of the diff
\* ends the command with the error, before the plan, the prompt and the
\* backend; nothing is written.
C3_ReverseIsHardError ==
    (cmd \in {"cp", "mv"} /\ DictGet(ldiff, "<-") # <<>>) =>
        /\ pc = "done"
        /\ error = IF cmd = "cp" THEN "Cannot copy from destination to source"
                   ELSE "Cannot move from destination to source"
        /\ ~plan.rendered /\ ~prompted /\ backend = NoCall
        /\ Trees0Kept

\* A move whose destination holds a listed file that the source lacks.
C3_Witness ==
    /\ cmd = "mv" /\ DictGet(ldiff, "<-") # <<>>
    /\ error = "Cannot move from destination to source"

\* C4: in shelephant_cp every computed diff (the manifest diff and the
\* live diff) has its "<-" set checked: a non-empty one raises the error.
C4_EveryReverseSetChecked ==
    (/\ cmd = "cp" /\ strategy # "none"
     /\ (DictGet(mdiff, "<-") # <<>> \/ DictGet(ldiff, "<-") # <<>>)) =>
        error = "Cannot copy from destination to source"

\* C5: the backend is called only after confirmation: --force (and then
\* no prompt), or the prompt answered yes.
C5_BackendOnlyAfterConfirmation ==
    /\ args.force => ~prompted
    /\ (pc = "confirmed" \/ backend # NoCall) =>
            \/ args.force
            \/ prompted /\ answer = "yes"

\* A removal that was confirmed at the prompt.
C5_Witness == backend.name = "local.remove" /\ prompted /\ answer = "yes"

\* C6: declining the prompt ends the command with "Cancelled" and leaves
\* the files of both sides as they were.
C6_DeclineCancels ==
    answer = "no" =>
        /\ pc = "done" /\ error = "Cancelled"
        /\ backend = NoCall /\ Trees0Kept

\* A move that was declined at the prompt.
C6_Witness == cmd = "mv" /\ prompted /\ answer = "no" /\ files # <<>>

\* C7: with --dry-run, cp, mv and rm show no prompt, call no backend, never
\* reach execution and change no file; a run that has files to process (and
\* passed the checks before the plan) prints the plan and returns.
C7_DryRun ==
    (args.dry_run /\ cmd \in {"cp", "mv", "rm"}) =>
        /\ ~prompted /\ backend = NoCall /\ pc # "confirmed" /\ Trees0Kept
        /\ (pc = "done" /\ files # <<>> /\ error \notin EntryErrors \cup ReverseErrors)
                => (plan.rendered /\ error = None /\ notice = None)

\* A dry run of a copy that printed its plan.
C7_Witness ==
    args.dry_run /\ cmd = "cp" /\ pc = "done" /\ plan.rendered /\ files # <<>>

TransferBackends == {"rsync.copy", "local.copy", "local.move"}

\* C8 (as stated): the list handed to the copy/move backend is exactly the
\* "->" set; no file classified "==" or "?=" is handed over.
C8_BackendGetsArrowSet ==
    backend.name \in TransferBackends =>
        /\ backend.files = DictGet(status, "->")
        /\ Range(backend.files) \cap (Range(equal) \cup Range(DictGet(status, "?="))) = {}

\* C8 (amended): the list handed to the copy/move backend is the working
\* list: the paths of the source manifest that are not classified "==", in
\* the order of the manifest.  It holds the "->" set and the "?=" set; no
\* file classified "==" is handed over.
C8_BackendGetsWorkingList ==
    backend.name \in TransferBackends =>
        /\ backend.files =
                MaskSelect(sourceinfo.files,
                           [i \in 1..Len(sourceinfo.files) |->
                                sourceinfo.files[i] \notin Range(equal)])
        /\ Range(DictGet(status, "->")) \cup Range(DictGet(status, "?="))
                \subseteq Range(backend.files)
        /\ Range(backend.files) \cap Range(equal) = {}

\* A copy with one file equal by fingerprint and one present on both sides.
C8_Witness ==
    /\ backend.name = "local.copy"
    /\ equal # <<>> /\ DictGet(status, "?=") # <<>>

\* C9: with nothing to process the command prints its notice and returns,
\* with no plan, no prompt and no backend call.
C9_NothingToDo ==
    /\ (/\ cmd \in {"cp", "mv", "rm"} /\ pc # "start"
        /\ error \notin EntryErrors /\ files = <<>>) =>
            /\ pc = "done" /\ error = None
            /\ notice = CASE cmd = "cp" -> IF equal = <<>> THEN "Nothing to copy"
                                           ELSE "All files equal"
                          [] cmd = "mv" -> "Nothing to move"
                          [] cmd = "rm" -> "Nothing to remove"
            /\ ~plan.rendered /\ ~prompted /\ backend = NoCall
    /\ notice # None => (files = <<>> /\ DictGet(ldiff, "->") = <<>>)

\* A copy whose files are all equal already.
C9_Witness == cmd = "cp" /\ notice = "All files equal" /\ pc = "done"

\* C10: the copy backend of shelephant_cp is rsync when it is available,
\* else the local backend when both sides are local, else the remote-shell
\* backend; the local backend never gets a remote side.
C10_BackendSelection ==
    (cmd = "cp" /\ backend # NoCall) =>
        backend.name =
            IF has_rsync THEN "rsync.copy"
            ELSE IF sourceinfo.ssh = None /\ dest_location.ssh = None
            THEN "local.copy"
            ELSE "scp.copy"

\* C11: shelephant_mv and shelephant_rm never operate on a remote location:
\* with a source manifest that names an SSH host (for mv also with a
\* destination that is no local directory) the command ends with an error
\* before any diff, plan, prompt or backend call, and no file has changed.
C11_NoRemoteMoveRemove ==
    (/\ cmd \in {"mv", "rm"} /\ pc # "start"
     /\ (sourceinfo.ssh # None \/ (cmd = "mv" /\ args.dest_kind # "dir"))) =>
        /\ pc = "done" /\ error \in EntryErrors
        /\ strategy = "none" /\ ldiff = EmptyDict /\ status = EmptyDict
        /\ files = <<>> /\ ~plan.rendered /\ ~prompted /\ backend = NoCall
        /\ Trees0Kept

\* A removal asked for a manifest that names a host and lists files that
\* exist below the root.
C11_Witness ==
    /\ cmd = "rm" /\ sourceinfo.ssh = Host /\ sourceinfo.files # <<>>
    /\ error = "Cannot move from remote"
    /\ \E p \in Range(sourceinfo.files) : srcTree[p] # 0

\* The directories local.copy was called with, as they were at the start.
source_dir0 == Dir(tree0[1], sourceinfo.ssh, TRUE)
dest_dir0 == Dir(tree0[2], dest_location.ssh, args.dest_kind # "none")

\* The position in fs of the first file that shutil.copy2 cannot copy
\* (Len(fs) + 1: every file can be copied).
FirstFailure(fs) ==
    LET bad == {i \in 1..Len(fs) : ~copy2_ok(source_dir0, dest_dir0, fs[i])}
    IN  IF bad = {} THEN Len(fs) + 1 ELSE CHOOSE i \in bad : \A j \in bad : i <= j

\* C12: local.copy works in list order and stops at the first failure: when
\* the k-th file cannot be copied the error ends the command, the files
\* before it are at the destination with the source's content, the k-th
\* file and those after it are as the destination had them, and the source
\* is untouched; without a failure every file is copied.
C12_FailStop ==
    backend.name = "local.copy" =>
        LET fs == backend.files
            k == FirstFailure(fs)
        IN  /\ pc = "done"
            /\ error = IF k <= Len(fs) THEN "TransferError" ELSE None
            /\ \A i \in 1..Len(fs) :
                    dstTree[fs[i]] = IF i < k THEN tree0[1][fs[i]] ELSE tree0[2][fs[i]]
            /\ \A p \in Paths \ Range(fs) : dstTree[p] = tree0[2][p]
            /\ srcTree = tree0[1]

\* local.copy copied its first file and failed on the second.
C12_Witness ==
    /\ backend.name = "local.copy" /\ error = "TransferError"
    /\ Len(backend.files) = 2 /\ FirstFailure(backend.files) = 2
    /\ dstTree # tree0[2]

\* local.copy failed on its first file and had a second one it could copy.
C12_WitnessSkipped ==
    /\ backend.name = "local.copy" /\ error = "TransferError"
    /\ Len(backend.files) = 2 /\ FirstFailure(backend.files) = 1
    /\ copy2_ok(source_dir0, dest_dir0, backend.files[2])
    /\ tree0[1][backend.files[2]] # tree0[2][backend.files[2]]

\* A shelephant_cp that ran to completion (it returned, and not from a dry
\* run) on a manifest whose files all exist in the source.
CopyCompleted ==
    /\ cmd = "cp" /\ pc = "done" /\ error = None
    /\ (backend # NoCall \/ notice # None)
    /\ \A p \in Range(sourceinfo.files) : tree0[1][p] # 0

\* C13 (as stated): after a completed copy, the diff of the same source
\* against the same destination has an empty "->" set, an empty "<-" set
\* and every listed file under "==".
C13_AllEqualAfterCopy ==
    CopyCompleted =>
        /\ DictGet(diff_status, "->") = <<>>
        /\ DictGet(diff_status, "<-") = <<>>
        /\ DictGet(diff_status, "==") = sourceinfo.files

\* C13 (amended): after a completed copy to a destination directory, the
\* diff of the same source against the same destination has an empty "->"
\* set and an empty "<-" set; every listed file is under "==" when the
\* diff is rsync's, and under "?=" (there is no "==" key) when it is the
\* existence diff.
C13_NothingLeftAfterCopy ==
    (CopyCompleted /\ args.dest_kind = "dir") =>
        /\ DictGet(diff_status, "->") = <<>>
        /\ DictGet(diff_status, "<-") = <<>>
        /\ IF has_rsync
           THEN DictGet(diff_status, "==") = sourceinfo.files
           ELSE /\ DictGet(diff_status, "?=") = sourceinfo.files
                /\ "==" \notin DOMAIN diff_status

\* A copy without rsync that created one file and replaced another.
C13_Witness ==
    /\ CopyCompleted /\ args.dest_kind = "dir" /\ backend.name = "local.copy"
    /\ Len(sourceinfo.files) = 2
    /\ \E p, q \in Paths : tree0[2][p] = 0 /\ tree0[2][q] # 0 /\ tree0[2][q] # tree0[1][q]

\* C14: in shelephant_cp a path that the manifest diff places under "=="
\* is taken out of the working list before the live diff runs: it is in
\* equal, not in the working list, under no key of the live diff, under
\* "==" (and not under "?=" or "->") of a plan that is printed, and not in
\* the list handed to the copy backend.
C14_FingerprintEqualStaysEqual ==
    (cmd = "cp" /\ strategy # "none") =>
        \A p \in Range(DictGet(mdiff, "==")) :
            /\ p \in Range(equal)
            /\ p \notin Range(files)
            /\ p \notin Covered(ldiff)
            /\ p \notin Covered(status) \/ p \in Range(DictGet(status, "=="))
            /\ plan.rendered =>
                    /\ p \in Range(DictGet(plan.status, "=="))
                    /\ p \notin Range(DictGet(plan.status, "?="))
                    /\ p \notin Range(DictGet(plan.status, "->"))
            /\ p \notin Range(backend.files)

\* A copy that printed a plan with a file equal by fingerprint (a file
\* that differs at the destination) and then copied another file.
C14_Witness ==
    /\ cmd = "cp" /\ plan.rendered /\ backend.name \in TransferBackends
    /\ backend.files # <<>>
    /\ \E p \in Range(DictGet(mdiff, "==")) : tree0[1][p] # tree0[2][p] /\ tree0[2][p] # 0

\* A shelephant_cp --force that returned without an error.
ForcedCopyDone == cmd = "cp" /\ args.force /\ pc = "done" /\ error = None

\* C15 (as stated): after a successful shelephant_cp --force every file
\* listed in the source manifest is at the destination with the content of
\* the source file, and the source files are as they were.
C15_ForceCopiesEveryListedFile ==
    ForcedCopyDone =>
        /\ \A p \in Range(sourceinfo.files) :
                dstTree[p] # 0 /\ dstTree[p] = tree0[1][p]
        /\ srcTree = tree0[1]

\* C15 (amended): after a successful shelephant_cp --force every listed
\* file that the manifest diff did not place under "==" is at the
\* destination with the content of the source file (also when the
\* destination had it with another content); a file the manifest diff
\* placed under "==" is at the destination as it was; the source files are
\* as they were.
C15_ForceCopiesAllButFingerprintEqual ==
    ForcedCopyDone =>
        /\ \A p \in Range(sourceinfo.files) \ Range(DictGet(mdiff, "==")) :
                dstTree[p] # 0 /\ dstTree[p] = tree0[1][p]
        /\ \A p \in Range(DictGet(mdiff, "==")) : dstTree[p] = tree0[2][p]
        /\ \A p \in Paths \ Range(sourceinfo.files) : dstTree[p] = tree0[2][p]
        /\ srcTree = tree0[1]

\* A forced copy without rsync that replaced a file the destination had
\* with another content and created a file it did not have.
C15_Witness ==
    /\ ForcedCopyDone /\ backend.name = "local.copy"
    /\ \E p, q \in Range(backend.files) :
            /\ tree0[2][p] # 0 /\ tree0[2][p] # tree0[1][p] /\ dstTree[p] = tree0[1][p]
            /\ tree0[2][q] = 0 /\ dstTree[q] # 0

\* C16: after a successful shelephant_rm --force on a local manifest no
\* listed file exists any more (the other files are as they were, there was
\* no prompt, and local.remove got the whole list); with an empty list
\* the command prints "Nothing to remove", calls no backend and removes
\* nothing.
C16_ForceRemovesAll ==
    /\ (/\ cmd = "rm" /\ args.force /\ sourceinfo.ssh = None
        /\ pc = "done" /\ error = None /\ sourceinfo.files # <<>>) =>
            /\ \A p \in Range(sourceinfo.files) : srcTree[p] = 0
            /\ \A p \in Paths \ Range(sourceinfo.files) : srcTree[p] = tree0[1][p]
            /\ backend = [name |-> "local.remove", files |-> sourceinfo.files]
            /\ notice = None /\ ~prompted
    /\ (/\ cmd = "rm" /\ pc = "done" /\ error \notin EntryErrors
        /\ sourceinfo.files = <<>>) =>
            /\ notice = "Nothing to remove" /\ error = None
            /\ backend = NoCall /\ ~plan.rendered /\ ~prompted /\ Trees0Kept
    /\ (cmd = "rm" /\ notice # None) => sourceinfo.files = <<>>

\* A forced removal of a list that names every path, all of them present.
C16_Witness ==
    /\ cmd = "rm" /\ args.force /\ pc = "done" /\ error = None
    /\ Len(sourceinfo.files) = NPaths
    /\ \A p \in Range(sourceinfo.files) : tree0[1][p] # 0 /\ srcTree[p] = 0

\* The part of the written list that follows the stored one.
Added == SubSeq(written.list, Len(outfile.list) + 1, Len(written.list))

\* C17: shelephant_dump --append on a flat list writes the stored list
\* followed by the new files (without --keep and --sort: the given names
\* that are not excluded, in the order given; with --sort: in ascending
\* order), and does so without a prompt also without --force; on a file
\* that is no flat list (or is not there) it ends with an error and writes
\* nothing.
C17_AppendKeepsOldFirst ==
    (cmd = "dump" /\ args.append /\ pc = "done") =>
        IF outfile.kind = "list"
        THEN /\ error = None /\ ~prompted
             /\ written.done /\ written.flat /\ target = "output"
             /\ Len(written.list) >= Len(outfile.list)
             /\ SubSeq(written.list, 1, Len(outfile.list)) = outfile.list
             /\ Range(Added) \subseteq Range(args.files) \ args.exclude
             /\ (args.keep = <<>> /\ ~args.sort) =>
                    Added = MaskSelect(args.files,
                                [j \in 1..Len(args.files) |-> args.files[j] \notin args.exclude])
             /\ args.sort => \A i, j \in 1..Len(Added) : i < j => Added[i] <= Added[j]
        ELSE /\ error # None /\ ~prompted
             /\ written = NotWritten /\ target = "none"

\* An append without --force of two names to a stored list of two others,
\* neither list in ascending order.
C17_Witness ==
    /\ cmd = "dump" /\ args.append /\ ~args.force /\ pc = "done"
    /\ outfile.kind = "list" /\ Len(outfile.list) = 2 /\ Len(args.files) = 2
    /\ outfile.list[1] > outfile.list[2]
    /\ written.list = outfile.list \o args.files
    /\ written.list # args.files \o outfile.list

\* The positions of the list of <remote.yaml> that are not marked skip.
NotSkipped ==
    MaskSelect([i \in 1..Len(data.files) |-> i],
               [i \in 1..Len(data.files) |-> ~marks.skip[i]])

\* C18: shelephant_get marks every position of the list with exactly one
\* of create, skip, overwrite: skip iff the destination file exists, the
\* manifest has hashes and the file's SHA-256 is the hash recorded at that
\* position; overwrite iff it exists and is not skipped; create iff it does
\* not exist.  The copy loop copies no skipped position, copies positions
\* in list order, and when it completes it has copied exactly the positions
\* that are not skipped; only their files change at the destination.
C18_ClassifyAndCopy ==
    (cmd = "get" /\ pc # "start") =>
        LET n == Len(data.files)
            there(i) == tree0[2][data.files[i]] # 0
            same(i) == GetSHA256(tree0[2][data.files[i]]) = data.hash[i]
        IN  /\ Len(marks.skip) = n /\ Len(marks.create) = n /\ Len(marks.overwrite) = n
            /\ \A i \in 1..n :
                /\ Cardinality({k \in {"skip", "create", "overwrite"} : marks[k][i]}) = 1
                /\ marks.skip[i] <=> (there(i) /\ data.has_hash /\ same(i))
                /\ marks.overwrite[i] <=> (there(i) /\ ~marks.skip[i])
                /\ marks.create[i] <=> ~there(i)
            /\ backend # NoCall =>
                /\ \A k \in 1..Len(backend.indices) : ~marks.skip[backend.indices[k]]
                /\ backend.indices = SubSeq(NotSkipped, 1, Len(backend.indices))
                /\ error = None => backend.indices = NotSkipped
                /\ \A p \in Paths :
                      dstTree[p] # tree0[2][p] =>
                          \E k \in 1..Len(backend.indices) :
                                data.files[backend.indices[k]] = p
            /\ backend = NoCall => dstTree = tree0[2]

\* A run that skipped one file, replaced another and completed.
C18_Witness ==
    /\ cmd = "get" /\ pc = "done" /\ error = None /\ backend # NoCall
    /\ Len(data.files) = 2
    /\ marks.skip[1] /\ marks.overwrite[2]
    /\ backend.indices = <<2>>

\* The manifest carries hashes and the first run, with --force, completed.
ForcedGetCompleted ==
    /\ cmd = "get" /\ run = 2 /\ data.has_hash
    /\ first.force /\ first.error = None /\ first.ret \in {"0", "None"}

\* What the claim says of the second run.
SecondRunSkipsAll ==
    /\ \A i \in 1..Len(data.files) :
            /\ tree0[2][data.files[i]] # 0
            /\ GetSHA256(tree0[2][data.files[i]]) = data.hash[i]
    /\ pc # "start" =>
            /\ pc = "done" /\ ret = "0" /\ error = None
            /\ all(marks.skip) /\ ~prompted /\ backend = NoCall
            /\ dstTree = tree0[2]

\* C19 (as stated): after a run with --force completed on a manifest with
\* hashes, every listed destination file has the recorded hash, and a second
\* run marks every file skip, returns 0, does not prompt and copies nothing.
C19_SecondRunSkipsAll ==
    ForcedGetCompleted => SecondRunSkipsAll

\* The recorded hashes are those of the source files.
HashesOfSource ==
    \A i \in 1..Len(data.files) :
        /\ srcTree[data.files[i]] # 0
        /\ data.hash[i] = GetSHA256(srcTree[data.files[i]])

\* C19 (amended): the same, for a manifest whose recorded hashes are the
\* SHA-256 of the source files.
C19_SecondRunSkipsAllFreshHashes ==
    (ForcedGetCompleted /\ HashesOfSource) => SecondRunSkipsAll

\* A second run, without --force, after a first run that copied a file.
C19_Witness ==
    /\ ForcedGetCompleted /\ HashesOfSource /\ first.ret = "None"
    /\ Len(data.files) = 2 /\ data.files[1] # data.files[2]
    /\ ~args.force /\ pc = "done" /\ ret = "0"

\* The options --update allows none of: an output file of another name
\* than the default, a dump file, a host.
Customised ==
    \/ args.output.value # f_hostinfo.value
    \/ args.dump_given # "" \/ args.ssh # None

\* C20: shelephant_hostinfo --update <file> without -o, -d and --ssh
\* passes the checks, reads the location of <file> again and writes it to
\* <file> itself, without a prompt; with one of these options it ends with
\* the error and has read and written nothing.
C20_UpdateRewritesItself ==
    (cmd = "hostinfo" /\ args.update /\ pc = "done") =>
        IF Customised
        THEN /\ error = "No customisation allowed in --update mode."
             /\ loc = NoLoc /\ written = NotWritten /\ target = "none" /\ ~prompted
        ELSE /\ error = None /\ ~prompted
             /\ written.done /\ target = "path"
             /\ loc.ssh = sourceinfo.ssh
             /\ Range(loc.files) = {p \in Paths : srcTree[p] # 0}

\* The two assertions of the existence diff (lines 586-587).
DiffRefusals ==
    {"Specify sourceinfo, or install rsync", "Specify destinfo, or install rsync"}

\* C21: shelephant_diff selects its strategy from (the destination is a
\* manifest file, rsync is available) alone.  With a destination manifest
\* it takes the manifest diff of the two manifests, whatever their hosts
\* are, and computes no live diff; with a destination that is no file it
\* takes the rsync diff when rsync is available; otherwise the existence
\* diff, which is refused with an error (nothing computed, written or
\* printed) unless the source manifest and the destination are both local.
C21_StrategySelection ==
    (cmd = "diff" /\ pc = "done" /\ args.source_is_file) =>
        IF args.dest_kind = "file"
        THEN /\ strategy = "manifest"
             /\ error \notin DiffRefusals
             /\ mdiff = Location_diff(sourceinfo, destinfo)
             /\ ldiff = EmptyDict
        ELSE IF has_rsync
        THEN /\ strategy = "rsync"
             /\ error \notin DiffRefusals
             /\ ldiff = rsync_diff(source_dir0, dest_dir0, sourceinfo.files)
             /\ mdiff = EmptyDict
        ELSE IF sourceinfo.ssh = None /\ args.ssh = None
        THEN /\ strategy = "local"
             /\ error \notin DiffRefusals
             /\ ldiff = IF local_diff_raises(sourceinfo.files) THEN EmptyDict
                        ELSE local_diff(source_dir0, dest_dir0, sourceinfo.files)
             /\ mdiff = EmptyDict
        ELSE /\ error \in DiffRefusals
             /\ strategy = "none"
             /\ ldiff = EmptyDict /\ mdiff = EmptyDict
             /\ ~written.done /\ ~plan.rendered

\* Two manifests of a remote host are compared while rsync is there: the
\* manifest diff ran, and found a path with equal fingerprints.
C21_Witness ==
    /\ cmd = "diff" /\ pc = "done" /\ error = None
    /\ args.dest_kind = "file" /\ has_rsync
    /\ sourceinfo.ssh = Host /\ destinfo.ssh = Host
    /\ strategy = "manifest" /\ DictGet(mdiff, "==") # <<>>

\* The existence diff is refused for a remote destination directory.
C21_WitnessRefused ==
    /\ cmd = "diff" /\ pc = "done"
    /\ args.dest_kind = "dir" /\ ~has_rsync
    /\ sourceinfo.ssh = None /\ args.ssh = Host
    /\ error = "Specify destinfo, or install rsync"

\* The rsync diff and the existence diff of a directory have run.
C21_WitnessLive ==
    /\ cmd = "diff" /\ pc = "done" /\ error = None
    /\ args.dest_kind = "dir" /\ strategy \in {"rsync", "local"}
    /\ DictGet(ldiff, "->") # <<>>

\* The manifest diff's "==" set and the list that is left without it.
FingerprintEqual == DictGet(mdiff, "==")
NotFingerprintEqual == ListRemove(sourceinfo.files, FingerprintEqual)

\* C22: with --sha256 shelephant_cp decides equality from the manifest
\* fingerprints alone: the rsync diff is not run, also when rsync is there;
\* the copy list is the list of the manifest without the paths of the
\* manifest diff's "==" set and nothing else; these remaining paths are
\* classified by the existence diff, which reports none of them as "==";
\* what the plan shows under "==" is the manifest diff's set.
C22_Sha256Only ==
    (cmd = "cp" /\ args.sha256 /\ strategy # "none") =>
        /\ strategy = "local"
        /\ equal = FingerprintEqual
        /\ files = NotFingerprintEqual
        /\ ldiff = IF local_diff_raises(NotFingerprintEqual) THEN EmptyDict
                   ELSE local_diff(source_dir0, dest_dir0, NotFingerprintEqual)
        /\ "==" \notin DOMAIN ldiff
        /\ plan.rendered => DictGet(plan.status, "==") = FingerprintEqual
        /\ backend # NoCall => backend.files = NotFingerprintEqual

\* rsync is there, --sha256 is given: one path is equal by fingerprint,
\* another is at both ends with the same content and is copied all the same.
C22_Witness ==
    /\ cmd = "cp" /\ args.sha256 /\ has_rsync /\ pc = "done" /\ error = None
    /\ FingerprintEqual # <<>>
    /\ backend.name = "rsync.copy"
    /\ \E p \in Range(backend.files) :
          /\ p \in Range(DictGet(ldiff, "?="))
          /\ tree0[1][p] = tree0[2][p]

\* shelephant_dump wrote args.output without --append, from names that are
\* pairwise distinct.
DumpedDistinct ==
    cmd = "dump" /\ written.done /\ ~args.append /\ Injective(args.files)

\* C23: the list shelephant_dump writes holds each path at most once when
\* the names it is given are pairwise distinct, whatever --keep, --exclude,
\* --exclude-extension and --sort are, several --keep patterns included.
C23_DumpedPathsUnique ==
    DumpedDistinct => Injective(written.list)

\* No name is matched by two of the --keep patterns.
KeepsApart ==
    \A i, j \in DOMAIN args.keep :
        i # j => args.keep[i] \cap args.keep[j] = {}

\* The same for --keep patterns that share no name: then the list is also
\* a sublist of the names given, as a set.
C23_UniqueWhenKeepsApart ==
    (DumpedDistinct /\ KeepsApart) =>
        /\ Injective(written.list)
        /\ Range(written.list) \subseteq Range(args.files)

\* Two --keep patterns match the same name, which is written twice.
C23_TwiceKept ==
    /\ DumpedDistinct /\ Len(args.keep) = 2
    /\ \E i, j \in DOMAIN written.list : i # j /\ written.list[i] = written.list[j]

\* C24: when a with-block of local.cwd or local.tempdir is left, by the
\* end of its body or by an exception (of the body, or of os.chdir on
\* entry), the working directory is the one that was current when the
\* block was entered; and when the outermost of nested blocks is left it
\* is the one that was current before the outermost block was entered.
C24_RestoresWorkingDirectory ==
    last.exited =>
        /\ wd = last.entered
        /\ stack = <<>> => wd = last.outer

\* The directory a with-block has to go back to is there while the block
\* is open, as is the working directory.
C24_OriginsExist ==
    /\ cmd = "with" => exists(dirs, wd)
    /\ \A i \in DOMAIN stack : exists(dirs, stack[i].entered)

\* The outermost block, a tempdir(), is left by an exception while the
\* process is in another directory than the one it was entered from.
C24_Witness ==
    /\ last.exited /\ last.kind = "tempdir" /\ last.how = "raised"
    /\ stack = <<>> /\ last.from # last.entered /\ wd = last.outer

\* The innermost of three nested blocks is left at the end of its body,
\* from a directory the body went to.
C24_WitnessNested ==
    /\ last.exited /\ last.how = "normal" /\ Len(stack) = MaxDepth - 1
    /\ last.from # last.entered /\ last.entered # last.outer

\* s is t with some of its elements left out: the order of t is kept.
IsSubSeq(s, t) ==
    \E f \in [1..Len(s) -> 1..Len(t)] :
        /\ \A i, j \in 1..Len(s) : i < j => f[i] < f[j]
        /\ \A i \in 1..Len(s) : t[f[i]] = s[i]

\* local.diff has returned, and the positions of its list whose path is
\* on at least one side.
LocalDiffReturned == cmd = "local.diff" /\ pc = "done" /\ error = None
OnSomeSide(p) == os_path_exists(call_source, p) \/ os_path_exists(call_dest, p)
SeenPositions == {i \in 1..Len(args.files) : OnSomeSide(args.files[i])}

\* C25: a listed path that is neither under the source directory nor under
\* the destination directory is in none of the lists local.diff returns;
\* the lists together hold exactly the listed paths that are on at least
\* one side (each as often as it is listed); and each list keeps the order
\* of the list that was given.
C25_CoversSeenInOrder ==
    LocalDiffReturned =>
        /\ \A p \in Range(args.files) : ~OnSomeSide(p) => p \notin Covered(ldiff)
        /\ Covered(ldiff) = {args.files[i] : i \in SeenPositions}
        /\ Len(ldiff["?="]) + Len(ldiff["->"]) + Len(ldiff["<-"])
                = Cardinality(SeenPositions)
        /\ \A k \in DOMAIN ldiff : IsSubSeq(ldiff[k], args.files)

\* A list of three names, the second of which is on neither side; the
\* first and the third are source-only.
C25_Witness ==
    /\ LocalDiffReturned /\ Len(args.files) = 3
    /\ ~OnSomeSide(args.files[2])
    /\ ldiff["->"] = <<args.files[1], args.files[3]>>

\* Two names that are not in alphabetical order come back in the order
\* they were given.
C25_WitnessOrder ==
    /\ LocalDiffReturned
    /\ \E i \in 1..(Len(args.files) - 1) :
          /\ args.files[i] > args.files[i + 1]
          /\ ldiff["?="] = <<args.files[i], args.files[i + 1]>>

\* The command has computed, shown, asked and done nothing.
NothingStarted ==
    /\ files = <<>> /\ equal = <<>> /\ status = EmptyDict
    /\ mdiff = EmptyDict /\ ldiff = EmptyDict /\ strategy = "none"
    /\ ~plan.rendered /\ notice = None /\ ~prompted /\ backend = NoCall
    /\ Trees0Kept

\* C26: shelephant_cp, shelephant_mv and shelephant_rm given --force and
\* --dry-run together end with an assertion error ("Cannot use --force
\* with --dry-run" when source and destination pass the checks before it)
\* with no manifest read, no diff, no plan, no prompt and no backend call;
\* and no run with --dry-run calls a backend or changes a file.
C26_ForceWithDryRunRejected ==
    /\ (cmd \in {"cp", "mv", "rm"} /\ args.force /\ args.dry_run /\ pc # "start") =>
            /\ pc = "done"
            /\ error \in {"Source must be a file", "Destination must be a directory",
                          "Cannot use --force with --dry-run"}
            /\ (args.source_is_file /\ (cmd = "mv" => args.dest_kind = "dir"))
                    => error = "Cannot use --force with --dry-run"
            /\ NothingStarted
    /\ (cmd \in {"cp", "mv", "rm"} /\ args.dry_run) =>
            backend = NoCall /\ Trees0Kept

\* shelephant_mv --force --dry-run on a manifest whose files are there to
\* be moved, and shelephant_cp --dry-run that went as far as the plan.
C26_Witness ==
    /\ cmd = "mv" /\ args.force /\ args.dry_run /\ pc = "done"
    /\ error = "Cannot use --force with --dry-run"
    /\ sourceinfo.files # <<>>
    /\ \A i \in DOMAIN sourceinfo.files : srcTree[sourceinfo.files[i]] # 0

\* A run with --dry-run alone shows its plan and stops.
C26_WitnessDryRun ==
    /\ cmd = "cp" /\ args.dry_run /\ ~args.force /\ pc = "done"
    /\ plan.rendered /\ DictGet(plan.status, "->") # <<>>

\* The status as the diff returned it, and the keys of --filter that have
\* no path in it (or are no key of it).
RawStatus == IF strategy = "manifest" THEN mdiff ELSE ldiff
Unfilled == {k \in Range(args.filter) : DictGet(RawStatus, k) = <<>>}

\* C27: shelephant_diff removes the keys with an empty list from the status
\* before it filters; so a --filter that names a key without paths, or a
\* key the status does not have, ends the command with a KeyError before
\* an output file is written or a table is printed, and in no other case;
\* without that error what is written or printed has no empty list.
C27_FilterOnEmptyKeyFails ==
    (cmd = "diff" /\ pc = "done" /\ strategy # "none" /\ error # "TypeError") =>
        /\ error = "KeyError" <=> Unfilled # {}
        /\ error = "KeyError" =>
              /\ ~written.done /\ ~plan.rendered
              /\ \A k \in DOMAIN status : status[k] # <<>>
        /\ error # "KeyError" =>
              /\ error = None
              /\ written.done \/ plan.rendered
              /\ \A k \in DOMAIN status : status[k] # <<>>
              /\ args.filter # <<>> => DOMAIN status = Range(args.filter)

\* --filter "->" -o <diff.yaml> on a directory that has every listed file
\* with the same content: "->" is a key of what rsync.diff returns, with
\* no path.
C27_Witness ==
    /\ cmd = "diff" /\ pc = "done" /\ error = "KeyError"
    /\ args.filter = <<"->">> /\ args.output
    /\ "->" \in DOMAIN RawStatus /\ RawStatus["->"] = <<>>
    /\ DictGet(RawStatus, "==") # <<>>
    /\ ~written.done
====
